---- MODULE Spec2Model ----
(***************************************************************************)
(* A model of ezmlex: the tokenizer buffers (ezmlex/buffers.py), the       *)
(* pattern and token registries (ezmlex/patterns.py, ezmlex/tokens.py) and *)
(* the tokenizer engine (ezmlex/tokenizers.py).                            *)
(*                                                                         *)
(* Text is a sequence of one-character strings.  A character buffer holds  *)
(* a sequence of characters, a line buffer a sequence of lines (each a     *)
(* sequence of characters).  A regular expression is a sequence of atoms   *)
(* (character class + quantifier) matched greedily with backtracking, the  *)
(* way re.match does.                                                      *)
(***************************************************************************)
EXTENDS Integers, Sequences, FiniteSets, TLC

(***************************************************************************)
(* Bounds of the model.                                                    *)
(***************************************************************************)
MaxLen == 3        \* longest string / readable input, in characters
MaxPieces == 3     \* most pieces a piece iterator yields
MaxPieceLen == 1   \* longest piece of a piece iterator, in characters
MaxChunk == 2      \* largest _default_chunk a buffer subclass is given
SmallIterations == 2  \* a small _max_iterations a tokenizer subclass is given

(***************************************************************************)
(* Characters.                                                             *)
(***************************************************************************)
NL == "\n"
NUL == "\\0"
Chars == {"a", "b", NL}
NotNL == Chars \ {NL}

Min(x, y) == IF x < y THEN x ELSE y

SetMax(S) == CHOOSE x \in S : \A y \in S : y <= x

\* the element of a one-element set; The({e : x \in {v}}) is e with x bound
\* to the value v, which is computed once
The(S) == CHOOSE x \in S : TRUE

\* Python's s[i:j] for 0 <= i, j (0-based, j exclusive), clipped to the length
PySlice(s, i, j) ==
  LET hi == Min(j, Len(s))
  IN IF i >= hi THEN << >> ELSE SubSeq(s, i + 1, hi)

\* ''.join(list of strings)
RECURSIVE Join(_)
Join(ss) == IF ss = << >> THEN << >> ELSE Head(ss) \o Join(Tail(ss))

\* str.count('\n')
RECURSIVE CountNL(_)
CountNL(s) ==
  IF s = << >> THEN 0
  ELSE (IF Head(s) = NL THEN 1 ELSE 0) + CountNL(Tail(s))

\* str.rfind('\n'): 0-based index of the last newline, -1 if none
RFindNL(s) ==
  LET P == {i \in 1..Len(s) : s[i] = NL}
  IN IF P = {} THEN -1 ELSE SetMax(P) - 1

\* str.endswith('\n')
EndsWithNL(s) == Len(s) > 0 /\ s[Len(s)] = NL

\* str.index('\n', from): 0-based index of the first newline at or after the
\* 0-based position from, -1 where Python raises ValueError
IndexNL(s, from) ==
  LET P == {i \in 1..Len(s) : i - 1 >= from /\ s[i] = NL}
  IN IF P = {} THEN -1 ELSE (CHOOSE i \in P : \A j \in P : i <= j) - 1

\* str.splitlines(True): lines with their terminators kept
RECURSIVE SplitLinesKeep(_)
SplitLinesKeep(s) ==
  IF s = << >> THEN << >>
  ELSE LET k == IndexNL(s, 0)
       IN IF k < 0 THEN << s >>
          ELSE << SubSeq(s, 1, k + 1) >> \o SplitLinesKeep(SubSeq(s, k + 2, Len(s)))

\* str.splitlines(): lines without their terminators
RECURSIVE SplitLines(_)
SplitLines(s) ==
  IF s = << >> THEN << >>
  ELSE LET k == IndexNL(s, 0)
       IN IF k < 0 THEN << s >>
          ELSE << SubSeq(s, 1, k) >> \o SplitLines(SubSeq(s, k + 2, Len(s)))

(***************************************************************************)
(* Regular expressions: a sequence of atoms, each a character class with a *)
(* quantifier ("1", "?", "+", "*"); anchored means wrapped in ^...$.       *)
(***************************************************************************)
Atom(cs, q) == [cs |-> cs, q |-> q]
Re(atoms) == [atoms |-> atoms, anchored |-> FALSE]

\* number of consecutive characters of s after position pos that are in cs
RECURSIVE Run(_, _, _)
Run(cs, s, pos) ==
  IF pos < Len(s) /\ s[pos + 1] \in cs THEN 1 + Run(cs, s, pos + 1) ELSE 0

\* '$': the end of the string, or just before a newline that ends the string
EndOk(s, pos) == pos = Len(s) \/ (pos = Len(s) - 1 /\ s[Len(s)] = NL)

\* End position of the first successful match, in the order a backtracking
\* greedy matcher tries them, of atoms i.. of re at position pos; -1 if none.
RECURSIVE MatchAt(_, _, _, _)
RECURSIVE TryCount(_, _, _, _, _, _)
MatchAt(re, i, s, pos) ==
  IF i > Len(re.atoms)
  THEN IF re.anchored /\ ~EndOk(s, pos) THEN -1 ELSE pos
  ELSE LET a == re.atoms[i]
           run == Run(a.cs, s, pos)
           lo == IF a.q \in {"1", "+"} THEN 1 ELSE 0
           hi == IF a.q \in {"1", "?"} THEN Min(1, run) ELSE run
       IN TryCount(re, i, s, pos, hi, lo)
TryCount(re, i, s, pos, k, lo) ==
  IF k < lo THEN -1
  ELSE LET r == MatchAt(re, i + 1, s, pos + k)
       IN IF r >= 0 THEN r ELSE TryCount(re, i, s, pos, k - 1, lo)

\* re.match(s): length of group(0), or -1 when there is no match
ReMatch(re, s) == MatchAt(re, 1, s, 0)

(***************************************************************************)
(* Pattern registries (ezmlex/patterns.py): a table is a function from     *)
(* identifiers to regular expressions.                                     *)
(***************************************************************************)
EmptyTab == [x \in {} |-> 0]

\* a slip in def_pattern: the pattern of an id already defined is replaced
\* before the call fails
DefPatternOverwrites(tab, _id, regex) ==
  [ok |-> _id \notin DOMAIN tab,
   tab |-> [x \in DOMAIN tab \cup {_id} |-> IF x = _id THEN regex ELSE tab[x]]]

\* def_pattern(tab, _id, regex): raises when _id is defined already
def_pattern(tab, _id, regex) ==
  IF _id \in DOMAIN tab THEN [ok |-> FALSE, tab |-> tab]
  ELSE [ok |-> TRUE,
        tab |-> [x \in DOMAIN tab \cup {_id} |-> IF x = _id THEN regex ELSE tab[x]]]

\* del_pattern(tab, _id): del tab[_id], a KeyError when _id is not defined
del_pattern(tab, _id) ==
  IF _id \in DOMAIN tab
  THEN [ok |-> TRUE, tab |-> [x \in DOMAIN tab \ {_id} |-> tab[x]]]
  ELSE [ok |-> FALSE, tab |-> tab]

\* pattern(tab, _id): tab[_id], a KeyError when _id is not defined
pattern(tab, _id) == [ok |-> _id \in DOMAIN tab, tab |-> tab]

\* find_matching_patterns(tab, item): the ids whose pattern matches
find_matching_patterns(tab, item) ==
  {p_id \in DOMAIN tab : ReMatch(tab[p_id], item) >= 0}

\* ccat('^', regex, '$') as def_fsm_char_pattern stores it
Anchored(re) == [re EXCEPT !.anchored = TRUE]

\* a slip in fsm_char: of several matching patterns one is taken
FsmCharAnyMatch(tab, item) ==
  The({ IF chars = {} THEN [ok |-> TRUE, ch |-> NUL]
        ELSE [ok |-> TRUE, ch |-> CHOOSE c \in chars : TRUE]
        : chars \in {find_matching_patterns(tab, item)} })

\* TokenizerBase.fsm_char: the FSM character of one item; ok is FALSE where
\* the code raises because the patterns are not mutually exclusive
fsm_char(tab, item) ==
  The({ IF Cardinality(chars) = 0 THEN [ok |-> TRUE, ch |-> NUL]
        ELSE IF Cardinality(chars) = 1
             THEN [ok |-> TRUE, ch |-> CHOOSE c \in chars : TRUE]
             ELSE [ok |-> FALSE, ch |-> NUL]
        : chars \in {find_matching_patterns(tab, item)} })

\* an item as the string handed to the patterns: a character buffer's item is
\* a one-character string, a line buffer's item is a line
ItemStr(kind, item) == IF kind = "char" THEN << item >> ELSE item

\* Buffer._make_fsm_str: the grammar's mapping from items to an FSM string.
\* mode "identity" is `return items` (examples/apidoc), mode "patterns" is
\* TokenizerBase._make_fsm_str_by_patterns.
make_fsm_str(kind, mk, items) ==
  IF mk.mode = "identity" THEN [ok |-> TRUE, str |-> items]
  ELSE The({ IF \E i \in 1..Len(items) : ~cs[i].ok
             THEN [ok |-> FALSE, str |-> << >>]
             ELSE [ok |-> TRUE, str |-> [i \in 1..Len(items) |-> cs[i].ch]]
             : cs \in {[i \in 1..Len(items) |->
                          fsm_char(mk.tab, ItemStr(kind, items[i]))]} })

(***************************************************************************)
(* Buffers (ezmlex/buffers.py).  A buffer is a record; every operation     *)
(* returns the buffer after it, with ok = FALSE where the code raises (the *)
(* buffer returned is then the state the exception leaves behind).         *)
(***************************************************************************)
NoInput == [mode |-> "none", data |-> << >>, tell |-> 0]

\* a slip in _update_end_marker: the end column is counted from the start
\* column whether or not the content has a newline
CharEndMarkerNoNewline(b) ==
  [b EXCEPT !.end_char_no = b.char_no + Len(b.content),
            !.end_line_no = b.line_no + CountNL(b.content),
            !.end_col_no = b.col_no + Len(b.content)]

\* CharOrientedBuffer._update_end_marker
CharUpdateEndMarker(b) ==
  LET nchars == Len(b.content)
      nlines == CountNL(b.content)
  IN [b EXCEPT !.end_char_no = b.char_no + nchars,
               !.end_line_no = b.line_no + nlines,
               !.end_col_no = IF nlines = 0 THEN b.col_no + nchars
                              ELSE nchars - (RFindNL(b.content) + 1)]

RECURSIVE SumLen(_)
SumLen(ss) == IF ss = << >> THEN 0 ELSE Len(Head(ss)) + SumLen(Tail(ss))

\* a slip in _update_end_marker: the end column of an incomplete line is its
\* length, whether or not it is the only line
LineEndMarkerFromZero(b) ==
  LET n == Len(b.content)
      incomplete == n > 0 /\ ~EndsWithNL(b.content[n])
  IN [b EXCEPT !.end_col_no = IF incomplete THEN Len(b.content[n])
                              ELSE (IF n = 0 THEN b.col_no ELSE 0),
               !.end_line_no = b.line_no + (IF incomplete THEN n - 1 ELSE n),
               !.end_char_no = b.char_no + SumLen(b.content)]

\* LineOrientedBuffer._update_end_marker
LineUpdateEndMarker(b) ==
  LET n == Len(b.content)
      incomplete == n > 0 /\ ~EndsWithNL(b.content[n])
      nlcnt == IF incomplete THEN n - 1 ELSE n
      col == IF incomplete
             THEN (IF nlcnt = 0 THEN b.col_no + Len(b.content[n])
                   ELSE Len(b.content[n]))
             ELSE (IF nlcnt = 0 THEN b.col_no ELSE 0)
  IN [b EXCEPT !.end_col_no = col,
               !.end_line_no = b.line_no + nlcnt,
               !.end_char_no = b.char_no + SumLen(b.content)]

_update_end_marker(b) ==
  IF b.kind = "char" THEN CharUpdateEndMarker(b) ELSE LineUpdateEndMarker(b)

\* TokenizerBufferBase.set_start_marker
set_start_marker(b, line_no, col_no, char_no) ==
  _update_end_marker([b EXCEPT !.line_no = line_no, !.col_no = col_no,
                               !.char_no = char_no])

\* the fsm_str keyword of assign: absent, or a given FSM string
NoFsm == [given |-> FALSE, str |-> << >>]
WithFsm(f) == [given |-> TRUE, str |-> f]

\* CharOrientedBuffer._do_assign: the fsm_str keyword is not looked at;
\* content = None is modelled as the empty content with none = TRUE
CharDoAssign(b, none, content, kw) ==
  IF none THEN [ok |-> TRUE, buf |-> [b EXCEPT !.content = << >>, !.fsm = << >>]]
  ELSE The({ IF f.ok
             THEN [ok |-> TRUE, buf |-> [b EXCEPT !.content = content, !.fsm = f.str]]
             ELSE [ok |-> FALSE, buf |-> [b EXCEPT !.content = content]]
             : f \in {make_fsm_str(b.kind, b.mk, content)} })

\* LineOrientedBuffer._do_assign for a list (or tuple) of lines
LineDoAssign(b, none, content, kw) ==
  LET c == IF none THEN << >> ELSE content
  IN IF ~none /\ kw.given
     THEN [ok |-> TRUE, buf |-> [b EXCEPT !.content = c, !.fsm = kw.str]]
     ELSE The({ IF f.ok
                THEN [ok |-> TRUE, buf |-> [b EXCEPT !.content = c, !.fsm = f.str]]
                ELSE [ok |-> FALSE, buf |-> [b EXCEPT !.content = c]]
                : f \in {make_fsm_str(b.kind, b.mk, c)} })

_do_assign(b, none, content, kw) ==
  IF b.kind = "char" THEN CharDoAssign(b, none, content, kw)
  ELSE LineDoAssign(b, none, content, kw)

\* TokenizerBufferBase.assign
assign(b, line_no, col_no, char_no, none, content, kw) ==
  The({ IF r.ok
        THEN [ok |-> TRUE, buf |-> set_start_marker(r.buf, line_no, col_no, char_no)]
        ELSE r
        : r \in {_do_assign(b, none, content, kw)} })

\* the _do_extend that _on_bind selects for an input: by what the input is
StrategyFor(input) ==
  CASE input.mode = "none" -> "default"
    [] input.mode = "string" -> "by_string"
    [] input.mode = "read" -> "by_read"
    [] OTHER -> "by_iter"

\* a slip in _on_bind: with None for input the _do_extend in force stays
BindKeepsStrategy(b, input) ==
  [b EXCEPT !.input = input,
            !.strategy = IF input.mode = "none" THEN @ ELSE StrategyFor(input)]

\* _on_bind + bind: the input is kept and _do_extend is set to the read
\* strategy for it; a string input starts with the cursor _tell at 0
\* a slip in _on_bind: a string is read on from where the last one was left
BindKeepsTell(b, input) ==
  [b EXCEPT !.input = IF input.mode = "string" /\ b.input.mode = "string"
                      THEN [input EXCEPT !.tell = b.input.tell]
                      ELSE input,
            !.strategy = StrategyFor(input)]

\* a slip in bind: the buffer starts anew on its new input
BindDropsContent(b, input) ==
  [b EXCEPT !.input = input, !.strategy = StrategyFor(input),
            !.content = << >>, !.fsm = << >>]

bind(b, input) == [b EXCEPT !.input = input, !.strategy = StrategyFor(input)]

\* what is left to read of an input (characters of a string or readable,
\* pieces of an iterator)
Remaining(input) == PySlice(input.data, input.tell, Len(input.data))

\* a slip in _do_extend_by_string: the end position is returned, not the
\* number of characters appended
CharExtendReturnsEnd(b, chunk_size) ==
  LET beg == b.input.tell
      end == Min(b.input.tell + chunk_size, Len(b.input.data))
      part == PySlice(b.input.data, beg, end)
  IN IF end > b.input.tell
     THEN The({ IF f.ok
                THEN [ok |-> TRUE, size |-> end,
                      buf |-> [b EXCEPT !.content = @ \o part, !.fsm = @ \o f.str,
                                        !.input.tell = end]]
                ELSE [ok |-> FALSE, size |-> 0,
                      buf |-> [b EXCEPT !.content = @ \o part]]
                : f \in {make_fsm_str(b.kind, b.mk, part)} })
     ELSE [ok |-> TRUE, size |-> end, buf |-> b]

\* CharOrientedBuffer._do_extend_by_string
CharDoExtendByString(b, chunk_size) ==
  LET beg == b.input.tell
      end == Min(b.input.tell + chunk_size, Len(b.input.data))
      part == PySlice(b.input.data, beg, end)
  IN IF end > b.input.tell
     THEN The({ IF f.ok
                THEN [ok |-> TRUE, size |-> end - beg,
                      buf |-> [b EXCEPT !.content = @ \o part, !.fsm = @ \o f.str,
                                        !.input.tell = end]]
                ELSE [ok |-> FALSE, size |-> 0,
                      buf |-> [b EXCEPT !.content = @ \o part]]
                : f \in {make_fsm_str(b.kind, b.mk, part)} })
     ELSE [ok |-> TRUE, size |-> end - beg, buf |-> b]

\* CharOrientedBuffer._do_extend_by_read; read(n) of a file object returns
\* the next n characters, fewer only at the end of the file
CharDoExtendByRead(b, chunk_size) ==
  LET string == PySlice(b.input.data, b.input.tell, b.input.tell + chunk_size)
      b1 == [b EXCEPT !.input.tell = @ + Len(string), !.content = @ \o string]
  IN The({ IF f.ok
           THEN [ok |-> TRUE, size |-> Len(string),
                 buf |-> [b1 EXCEPT !.fsm = @ \o f.str]]
           ELSE [ok |-> FALSE, size |-> 0, buf |-> b1]
           : f \in {make_fsm_str(b.kind, b.mk, string)} })

\* CharOrientedBuffer._do_extend_by_iter: the while loop, from the state
\* (b, size)
RECURSIVE CharIterLoop(_, _, _)
CharIterLoop(b, size, chunk_size) ==
  IF ~(size < chunk_size) \/ b.input.tell >= Len(b.input.data)
  THEN [ok |-> TRUE, size |-> size, buf |-> b]
  ELSE LET part == b.input.data[b.input.tell + 1]
           b1 == [b EXCEPT !.input.tell = @ + 1, !.content = @ \o part]
       IN The({ IF f.ok
                THEN CharIterLoop([b1 EXCEPT !.fsm = @ \o f.str], size + Len(part),
                                  chunk_size)
                ELSE [ok |-> FALSE, size |-> 0, buf |-> b1]
                : f \in {make_fsm_str(b.kind, b.mk, part)} })

\* a slip in _do_extend_by_iter: the loop ends as soon as anything was read
CharExtendOnePiece(b, chunk_size) == CharIterLoop(b, 0, 1)

CharDoExtendByIter(b, chunk_size) == CharIterLoop(b, 0, chunk_size)

\* the last item of a line buffer is an incomplete line
LastIncomplete(b) ==
  Len(b.content) > 0 /\ ~EndsWithNL(b.content[Len(b.content)])

\* a slip in _do_append_line: the FSM character of the line that is completed
\* is added to the FSM string, not put in the place of the old one
AppendLineKeepsFsmChar(b, line) ==
  LET b1 == IF LastIncomplete(b) THEN [b EXCEPT !.content[Len(b.content)] = @ \o line]
            ELSE [b EXCEPT !.content = Append(@, line)]
  IN The({ IF f.ok THEN [ok |-> TRUE, buf |-> [b1 EXCEPT !.fsm = @ \o f.str]]
           ELSE [ok |-> FALSE, buf |-> b1]
           : f \in {make_fsm_str(b.kind, b.mk, << b1.content[Len(b1.content)] >>)} })

\* LineOrientedBuffer._do_append_line
_do_append_line(b, line) ==
  IF LastIncomplete(b)
  THEN LET n == Len(b.content)
           b1 == [b EXCEPT !.content[n] = @ \o line]
       IN The({ IF f.ok
                THEN [ok |-> TRUE,
                      buf |-> [b1 EXCEPT !.fsm = PySlice(b.fsm, 0, Len(b.fsm) - 1)
                                                 \o f.str]]
                ELSE [ok |-> FALSE, buf |-> b1]
                : f \in {make_fsm_str(b.kind, b.mk, << b1.content[n] >>)} })
  ELSE LET b1 == [b EXCEPT !.content = Append(@, line)]
       IN The({ IF f.ok
                THEN [ok |-> TRUE, buf |-> [b1 EXCEPT !.fsm = @ \o f.str]]
                ELSE [ok |-> FALSE, buf |-> b1]
                : f \in {make_fsm_str(b.kind, b.mk, << line >>)} })

\* LineOrientedBuffer._do_append_string_lines
_do_append_string_lines(b, string) ==
  IF string = << >> THEN [ok |-> TRUE, buf |-> b]
  ELSE LET lines == SplitLinesKeep(string)
       IN IF LastIncomplete(b)
          THEN LET n == Len(b.content)
                   b1 == [b EXCEPT !.content[n] = @ \o lines[1]]
               IN The({ LET b2 == [b1 EXCEPT !.fsm = PySlice(b.fsm, 0, Len(b.fsm) - 1)
                                                      \o f1.str]
                            b3 == [b2 EXCEPT !.content = @ \o Tail(lines)]
                        IN IF ~f1.ok THEN [ok |-> FALSE, buf |-> b1]
                           ELSE IF ~f2.ok THEN [ok |-> FALSE, buf |-> b3]
                           ELSE [ok |-> TRUE, buf |-> [b3 EXCEPT !.fsm = @ \o f2.str]]
                        : f1 \in {make_fsm_str(b.kind, b.mk, << b1.content[n] >>)},
                          f2 \in {make_fsm_str(b.kind, b.mk, Tail(lines))} })
          ELSE LET b1 == [b EXCEPT !.content = @ \o lines]
               IN The({ IF f.ok
                        THEN [ok |-> TRUE, buf |-> [b1 EXCEPT !.fsm = @ \o f.str]]
                        ELSE [ok |-> FALSE, buf |-> b1]
                        : f \in {make_fsm_str(b.kind, b.mk, lines)} })

\* a slip in _do_extend_by_string: the slice is not continued to the next
\* newline
LineExtendStopsAtChunk(b, chunk_size) ==
  LET input_len == Len(b.input.data)
      end == Min(input_len, b.input.tell + chunk_size)
  IN IF b.input.tell < end
     THEN The({ IF r.ok
                THEN [ok |-> TRUE, size |-> end - b.input.tell,
                      buf |-> [r.buf EXCEPT !.input.tell = end]]
                ELSE [ok |-> FALSE, size |-> 0, buf |-> r.buf]
                : r \in {_do_append_string_lines(
                           b, PySlice(b.input.data, b.input.tell, end))} })
     ELSE [ok |-> TRUE, size |-> 0, buf |-> b]

\* LineOrientedBuffer._do_extend_by_string
LineDoExtendByString(b, chunk_size) ==
  LET input_len == Len(b.input.data)
      end0 == Min(input_len, b.input.tell + chunk_size)
      nl == IndexNL(b.input.data, end0 - 1)
      end == IF b.input.data[end0] # NL
             THEN (IF nl >= 0 THEN nl + 1 ELSE input_len)
             ELSE end0
  IN IF b.input.tell < end0
     THEN The({ IF r.ok
                THEN [ok |-> TRUE, size |-> end - b.input.tell,
                      buf |-> [r.buf EXCEPT !.input.tell = end]]
                ELSE [ok |-> FALSE, size |-> 0, buf |-> r.buf]
                : r \in {_do_append_string_lines(
                           b, PySlice(b.input.data, b.input.tell, end))} })
     ELSE [ok |-> TRUE, size |-> 0, buf |-> b]

\* file.readline(): up to and including the next newline, or the rest
ReadLine(input) ==
  LET nl == IndexNL(input.data, input.tell)
  IN IF nl >= 0 THEN PySlice(input.data, input.tell, nl + 1) ELSE Remaining(input)

\* LineOrientedBuffer._do_extend_by_read
LineDoExtendByRead(b, chunk_size) ==
  LET chunk == PySlice(b.input.data, b.input.tell, b.input.tell + chunk_size)
      b1 == [b EXCEPT !.input.tell = @ + Len(chunk)]
      tail == ReadLine(b1.input)
  IN IF chunk # << >>
     THEN The({ IF ~r1.ok THEN [ok |-> FALSE, size |-> 0, buf |-> r1.buf]
                ELSE IF chunk[Len(chunk)] # NL
                     THEN The({ IF r2.ok
                                THEN [ok |-> TRUE, size |-> Len(chunk) + Len(tail),
                                      buf |-> r2.buf]
                                ELSE [ok |-> FALSE, size |-> 0, buf |-> r2.buf]
                                : r2 \in {_do_append_string_lines(
                                            [r1.buf EXCEPT !.input.tell = @ + Len(tail)],
                                            tail)} })
                     ELSE [ok |-> TRUE, size |-> Len(chunk), buf |-> r1.buf]
                : r1 \in {_do_append_string_lines(b1, chunk)} })
     ELSE [ok |-> TRUE, size |-> 0, buf |-> b1]

\* LineOrientedBuffer._do_extend_by_iter: the while loop, from the state
\* (b, size); an empty piece ends the loop like the end of the iterator
RECURSIVE LineIterLoop(_, _, _)
LineIterLoop(b, size, chunk_size) ==
  IF ~(size < chunk_size) \/ b.input.tell >= Len(b.input.data)
  THEN [ok |-> TRUE, size |-> size, buf |-> b]
  ELSE LET line == b.input.data[b.input.tell + 1]
           b1 == [b EXCEPT !.input.tell = @ + 1]
       IN IF line = << >> THEN [ok |-> TRUE, size |-> size, buf |-> b1]
          ELSE The({ IF r.ok THEN LineIterLoop(r.buf, size + Len(line), chunk_size)
                     ELSE [ok |-> FALSE, size |-> 0, buf |-> r.buf]
                     : r \in {_do_append_line(b1, line)} })

LineDoExtendByIter(b, chunk_size) == LineIterLoop(b, 0, chunk_size)

\* the _do_extend strategy that _on_bind selected; _do_extend_default raises
_do_extend(b, chunk_size) ==
  IF b.strategy = "default" THEN [ok |-> FALSE, size |-> 0, buf |-> b]
  ELSE IF b.kind = "char"
       THEN (IF b.strategy = "by_string" THEN CharDoExtendByString(b, chunk_size)
             ELSE IF b.strategy = "by_read" THEN CharDoExtendByRead(b, chunk_size)
             ELSE CharDoExtendByIter(b, chunk_size))
       ELSE (IF b.strategy = "by_string" THEN LineDoExtendByString(b, chunk_size)
             ELSE IF b.strategy = "by_read" THEN LineDoExtendByRead(b, chunk_size)
             ELSE LineDoExtendByIter(b, chunk_size))

\* a slip in extend: the end marker is left as it was
ExtendKeepsEndMarker(b, chunk_size) == _do_extend(b, chunk_size)

\* TokenizerBufferBase.extend(chunk_size)
extend(b, chunk_size) ==
  The({ IF r.ok THEN [r EXCEPT !.buf = _update_end_marker(r.buf)] ELSE r
        : r \in {_do_extend(b, chunk_size)} })

\* extend(), with the default chunk size, called until the input has no
\* more to give: the reading of an input to exhaustion
RECURSIVE ReadAll(_)
ReadAll(b) ==
  IF Remaining(b.input) = << >>
  THEN [ok |-> TRUE, size |-> 0, buf |-> b]
  ELSE The({ IF r.ok THEN ReadAll(r.buf) ELSE r : r \in {extend(b, b.chunk)} })

\* a buffer object before __init__ has run
Blank(kind, mk, chunk) ==
  [kind |-> kind, mk |-> mk, chunk |-> chunk, content |-> << >>, fsm |-> << >>,
   line_no |-> 0, col_no |-> 0, char_no |-> 0,
   end_line_no |-> 0, end_col_no |-> 0, end_char_no |-> 0, input |-> NoInput,
   strategy |-> "default"]

\* TokenizerBufferBase.__init__: bind, then assign
NewBuffer(kind, mk, chunk, input, line_no, col_no, char_no, none, content, kw) ==
  assign(bind(Blank(kind, mk, chunk), input), line_no, col_no, char_no,
         none, content, kw)

\* a slip in shift: the start marker stays where it was
ShiftKeepsMarker(b, count) ==
  The({ The({ [ok |-> s.ok /\ r.ok, s |-> s.buf, buf |-> r.buf]
              : r \in {assign(b, b.line_no, b.col_no, b.char_no,
                              FALSE, PySlice(b.content, count, Len(b.content)),
                              WithFsm(PySlice(b.fsm, count, Len(b.fsm))))} })
        : s \in {NewBuffer(b.kind, b.mk, b.chunk, NoInput, b.line_no, b.col_no,
                           b.char_no, FALSE, PySlice(b.content, 0, count),
                           WithFsm(PySlice(b.fsm, 0, count)))} })

\* a slip in shift: the buffer returned is bound to the input of the caller
ShiftSharesInput(b, count) ==
  The({ The({ [ok |-> s.ok /\ r.ok, s |-> s.buf, buf |-> r.buf]
              : r \in {assign(b, s.buf.end_line_no, s.buf.end_col_no, s.buf.end_char_no,
                              FALSE, PySlice(b.content, count, Len(b.content)),
                              WithFsm(PySlice(b.fsm, count, Len(b.fsm))))} })
        : s \in {NewBuffer(b.kind, b.mk, b.chunk, b.input, b.line_no, b.col_no,
                           b.char_no, FALSE, PySlice(b.content, 0, count),
                           WithFsm(PySlice(b.fsm, 0, count)))} })

\* a slip in shift: the fsm_str keyword is not passed on, the FSM strings
\* are made anew
ShiftRecomputesFsm(b, count) ==
  The({ The({ [ok |-> s.ok /\ r.ok, s |-> s.buf, buf |-> r.buf]
              : r \in {assign(b, s.buf.end_line_no, s.buf.end_col_no, s.buf.end_char_no,
                              FALSE, PySlice(b.content, count, Len(b.content)), NoFsm)} })
        : s \in {NewBuffer(b.kind, b.mk, b.chunk, NoInput, b.line_no, b.col_no,
                           b.char_no, FALSE, PySlice(b.content, 0, count), NoFsm)} })

\* a slip in shift: the item after the ones shifted out is lost
ShiftDropsItem(b, count) ==
  The({ The({ [ok |-> s.ok /\ r.ok, s |-> s.buf, buf |-> r.buf]
              : r \in {assign(b, s.buf.end_line_no, s.buf.end_col_no, s.buf.end_char_no,
                              FALSE, PySlice(b.content, count + 1, Len(b.content)),
                              WithFsm(PySlice(b.fsm, count + 1, Len(b.fsm))))} })
        : s \in {NewBuffer(b.kind, b.mk, b.chunk, NoInput, b.line_no, b.col_no,
                           b.char_no, FALSE, PySlice(b.content, 0, count),
                           WithFsm(PySlice(b.fsm, 0, count)))} })

\* TokenizerBufferBase.shift(count): s is the buffer returned, buf the
\* buffer afterwards
shift(b, count) ==
  The({ IF ~s.ok THEN [ok |-> FALSE, s |-> s.buf, buf |-> b]
        ELSE The({ [ok |-> r.ok, s |-> s.buf, buf |-> r.buf]
                   : r \in {assign(b, s.buf.end_line_no, s.buf.end_col_no,
                                   s.buf.end_char_no,
                                   FALSE, PySlice(b.content, count, Len(b.content)),
                                   WithFsm(PySlice(b.fsm, count, Len(b.fsm))))} })
        : s \in {NewBuffer(b.kind, b.mk, b.chunk, NoInput, b.line_no, b.col_no,
                           b.char_no, FALSE, PySlice(b.content, 0, count),
                           WithFsm(PySlice(b.fsm, 0, count)))} })

\* Buffer.__str__: the text held
BufStr(b) == IF b.kind = "char" THEN b.content ELSE Join(b.content)

(***************************************************************************)
(* Token registries (ezmlex/tokens.py) and the tokenizer engine            *)
(* (ezmlex/tokenizers.py).  A token type is a record of its pattern, its   *)
(* is_error() and its message(); a registry maps ids to token types.       *)
(***************************************************************************)
\* def_token: a regular token type (TokenBase.is_error, TokenBase.message)
TokenType(re) == [pattern |-> re, is_error |-> FALSE, message |-> ""]

\* a slip in def_error_type: is_error and message are left as def_token made them
ErrorTypeUnpatched(re, message) == [pattern |-> re, is_error |-> FALSE, message |-> ""]

\* def_error_type: is_error and message are replaced
ErrorType(re, message) == [pattern |-> re, is_error |-> TRUE, message |-> message]

\* def_token(tab, _id, pattern): raises when _id is defined already
def_token(tab, _id, re) ==
  IF _id \in DOMAIN tab THEN [ok |-> FALSE, tab |-> tab]
  ELSE [ok |-> TRUE,
        tab |-> [x \in DOMAIN tab \cup {_id} |->
                   IF x = _id THEN TokenType(re) ELSE tab[x]]]

\* del_token(tab, _id) and token(tab, _id): del tab[_id] and tab[_id]
del_token(tab, _id) == del_pattern(tab, _id)
token(tab, _id) == pattern(tab, _id)

\* the tokenizer classes: TokenizerBase and two classes derived from it
Classes == {"TokenizerBase", "A", "B"}

\* the classes in which an attribute of a class is looked up, in order
Mro(cls) == IF cls = "TokenizerBase" THEN << cls >> ELSE << cls, "TokenizerBase" >>

\* the four registries of a tokenizer class, by the class attribute that
\* holds the dictionary
Registries == {"_patterns", "_fsm_char_patterns", "_token_types", "_error_types"}

\* a class that has no attribute of its own for a registry
NoAttr == [has |-> FALSE, tab |-> EmptyTab]

\* cls.patterns(), cls.fsm_char_patterns(), cls.token_types() and
\* cls.error_types(): the dictionary that the attribute lookup on cls finds,
\* in cls or in a class it derives from, and, when there is none, a new
\* empty one set on cls.  own maps each class to its own attribute; at is
\* the class whose dictionary is returned.
Accessor(own, cls) ==
  IF \E i \in 1..Len(Mro(cls)) : own[Mro(cls)[i]].has
  THEN [own |-> own,
        at |-> Mro(cls)[CHOOSE i \in 1..Len(Mro(cls)) :
                          /\ own[Mro(cls)[i]].has
                          /\ \A j \in 1..(i - 1) : ~own[Mro(cls)[j]].has]]
  ELSE [own |-> [own EXCEPT ![cls] = [has |-> TRUE, tab |-> EmptyTab]], at |-> cls]

\* a slip in def_fsm_char_pattern: the reserved character is not refused
DefineTakesNul(registry, tab, _id, re) ==
  CASE registry = "_patterns" -> def_pattern(tab, _id, re)
    [] registry = "_fsm_char_patterns" -> def_pattern(tab, _id, Anchored(re))
    [] registry = "_token_types" -> def_token(tab, _id, re)
    [] OTHER ->
         The({ IF r.ok THEN [r EXCEPT !.tab[_id] = ErrorType(re, "message")] ELSE r
               : r \in {def_token(tab, _id, re)} })

\* def_pattern, def_fsm_char_pattern, def_token_type and def_error_type of
\* TokenizerBase, on the dictionary the accessor returned
Define(registry, tab, _id, re) ==
  CASE registry = "_patterns" -> def_pattern(tab, _id, re)
    [] registry = "_fsm_char_patterns" ->
         IF _id = NUL THEN [ok |-> FALSE, tab |-> tab]
         ELSE def_pattern(tab, _id, Anchored(re))
    [] registry = "_token_types" -> def_token(tab, _id, re)
    [] OTHER ->
         The({ IF r.ok THEN [r EXCEPT !.tab[_id] = ErrorType(re, "message")] ELSE r
               : r \in {def_token(tab, _id, re)} })

\* del_pattern, del_fsm_char_pattern, del_token_type and del_error_type
Remove(registry, tab, _id) ==
  IF registry \in {"_patterns", "_fsm_char_patterns"} THEN del_pattern(tab, _id)
  ELSE del_token(tab, _id)

\* pattern, fsm_char_pattern, token_type and error_type
Lookup(registry, tab, _id) ==
  IF registry \in {"_patterns", "_fsm_char_patterns"} THEN pattern(tab, _id)
  ELSE token(tab, _id)

\* find_matching_tokens(tab, fsm_str): the ids whose pattern matches
find_matching_tokens(tab, fsm_str) ==
  {t_id \in DOMAIN tab : ReMatch(tab[t_id].pattern, fsm_str) >= 0}

\* len(m[2].group(0)) for each id of a match list
MatchLens(tab, ids, fsm_str) == [t_id \in ids |-> ReMatch(tab[t_id].pattern, fsm_str)]

\* a slip in the choice among the matches: the shortest one
MatchLenMin(lens) ==
  CHOOSE x \in {lens[i] : i \in DOMAIN lens} : \A i \in DOMAIN lens : x <= lens[i]

\* match_len_max = max(match_len_list)
MatchLenMax(lens) == SetMax({lens[i] : i \in DOMAIN lens})

\* a slip in the count of the longest matches: ties go unnoticed
MatchLenMaxCountOne(lens) == 1

\* match_len_max_count = match_len_list.count(match_len_max)
MatchLenMaxCount(lens) ==
  Cardinality({i \in DOMAIN lens : lens[i] = MatchLenMax(lens)})

_max_lookahead == 1
_max_iterations == 1000000

VARIABLES
  buffer,          \* the tokenizer's _buffer
  token_types,     \* cls._token_types
  error_types,     \* cls._error_types
  max_iterations,  \* the _max_iterations in force for the tokenizer class
  pc,              \* "idle", "loop" (inside token()), "done" (token() returned
                   \* None and the iteration stopped), "raised"
  eoi,             \* token()'s local eoi
  iter_counter,    \* token()'s local iter_counter
  tokens,          \* the tokens returned so far, in order
  obs,             \* what the last loop iteration of token() saw and did
  buf0,            \* the buffer when the current token() call started
  op,              \* the last call of a buffer method or of a registry
                   \* method: its name, arguments, whether it returned
                   \* (ok) and what it returned
  hist,            \* what shift has returned since the buffer was made
  classes          \* the registry attribute of each tokenizer class

vars == << buffer, token_types, error_types, max_iterations, pc, eoi,
           iter_counter, tokens, obs, buf0, op, hist, classes >>

\* the inner while loop of token(): read until max_lookahead items are there
RECURSIVE FillLookahead(_, _)
FillLookahead(b, e) ==
  IF (~e) /\ Len(b.content) < _max_lookahead
  THEN The({ IF r.ok THEN FillLookahead(r.buf, r.size < b.chunk)
             ELSE [ok |-> FALSE, buf |-> r.buf, eoi |-> e]
             : r \in {extend(b, b.chunk)} })
  ELSE [ok |-> TRUE, buf |-> b, eoi |-> e]

\* Token(s.line_no(), s.col_no(), s.char_no()); token.set_value(str(s))
MakeToken(tab, id, s) ==
  [id |-> id, line_no |-> s.line_no, col_no |-> s.col_no, char_no |-> s.char_no,
   value |-> BufStr(s), is_error |-> tab[id].is_error, message |-> tab[id].message]

NoToken ==
  [id |-> "", line_no |-> 0, col_no |-> 0, char_no |-> 0, value |-> << >>,
   is_error |-> FALSE, message |-> ""]

\* a result of one loop iteration: what it did (act), the buffer and eoi
\* after it, the token returned (act "token"), and what it saw: the buffer
\* (pre) and eoi (seen) it matched with, the match lengths
Outcome(act, b, e, tok, cause, pre, seen, lens, elens, nitems) ==
  [act |-> act, buf |-> b, eoi |-> e, tok |-> tok, cause |-> cause,
   pre |-> pre, seen |-> seen, lens |-> lens, elens |-> elens, nitems |-> nitems]

\* a slip in _error_token: the first item is shifted out before the error
\* types are counted
ErrorTokenShiftsFirst(b, e, fsm_str, lens) ==
  The({ IF Cardinality(DOMAIN elens) # 1
        THEN Outcome("raise", shift(b, 1).buf, e, NoToken, "error_type", b, e,
                     lens, elens, 0)
        ELSE The({ Outcome("token", r.buf, e,
                           MakeToken(error_types, The(DOMAIN elens), r.s), "error",
                           b, e, lens, elens, Len(r.s.content))
                   : r \in {shift(b, elens[The(DOMAIN elens)])} })
        : elens \in {MatchLens(error_types,
                               find_matching_tokens(error_types, fsm_str), fsm_str)} })

\* TokenizerBase._error_token(fsm_str), on the buffer b
_error_token(b, e, fsm_str, lens) ==
  The({ IF Cardinality(DOMAIN elens) # 1
        THEN Outcome("raise", b, e, NoToken, "error_type", b, e, lens, elens, 0)
        ELSE The({ IF ~r.ok
                   THEN Outcome("raise", r.buf, e, NoToken, "shift", b, e, lens, elens, 0)
                   ELSE Outcome("token", r.buf, e,
                                MakeToken(error_types, The(DOMAIN elens), r.s), "error",
                                b, e, lens, elens, Len(r.s.content))
                   : r \in {shift(b, elens[The(DOMAIN elens)])} })
        : elens \in {MatchLens(error_types,
                               find_matching_tokens(error_types, fsm_str), fsm_str)} })

\* the part of one loop iteration of token() after the look-ahead is filled
MatchStep(b, e) ==
  LET fsm_str == b.fsm
      fsm_str_len == Len(fsm_str)
  IN IF fsm_str_len # Len(b.content) \/ ~(fsm_str_len > 0)
     THEN Outcome("raise", b, e, NoToken, "assert", b, e, EmptyTab, EmptyTab, 0)
     ELSE The({
       LET match_list == DOMAIN lens
           whole_match_count == Cardinality({i \in match_list : lens[i] = fsm_str_len})
           match_len_max == MatchLenMax(lens)
           match_len_max_count == MatchLenMaxCount(lens)
           \* index = match_len_list.index(match_len_max): the first of the longest
           id == CHOOSE i \in match_list : lens[i] = match_len_max
       IN IF match_list = {} THEN _error_token(b, e, fsm_str, lens)
          ELSE IF whole_match_count = 0 \/ e
               THEN IF match_len_max_count > 1 THEN _error_token(b, e, fsm_str, lens)
                    ELSE The({ IF ~r.ok
                               THEN Outcome("raise", r.buf, e, NoToken, "shift",
                                            b, e, lens, EmptyTab, 0)
                               ELSE Outcome("token", r.buf, e,
                                            MakeToken(token_types, id, r.s), "match",
                                            b, e, lens, EmptyTab, Len(r.s.content))
                               : r \in {shift(b, match_len_max)} })
               ELSE The({ IF x.ok
                          THEN Outcome("extend", x.buf, x.size < b.chunk, NoToken,
                                       "whole", b, e, lens, EmptyTab, 0)
                          ELSE Outcome("raise", x.buf, e, NoToken, "extend",
                                       b, e, lens, EmptyTab, 0)
                          : x \in {extend(b, b.chunk)} })
       : lens \in {MatchLens(token_types,
                             find_matching_tokens(token_types, fsm_str), fsm_str)} })

\* one iteration of the while loop of token()
LoopBody(b, e) ==
  The({ IF ~fill.ok
        THEN Outcome("raise", fill.buf, fill.eoi, NoToken, "extend", fill.buf,
                     fill.eoi, EmptyTab, EmptyTab, 0)
        ELSE IF Len(fill.buf.content) = 0
             THEN Outcome("none", fill.buf, fill.eoi, NoToken, "empty", fill.buf,
                          fill.eoi, EmptyTab, EmptyTab, 0)
             ELSE MatchStep(fill.buf, fill.eoi)
        : fill \in {FillLookahead(b, e)} })

(***************************************************************************)
(* Grammars: the tokenizer classes the model runs.                         *)
(***************************************************************************)
Identity == [mode |-> "identity", tab |-> EmptyTab]
ByPatterns(tab) == [mode |-> "patterns", tab |-> tab]

Plus(cs) == Re(<< Atom(cs, "+") >>)
Star(cs) == Re(<< Atom(cs, "*") >>)
One(cs) == Re(<< Atom(cs, "1") >>)

\* a line that starts with a character of cs and ends with a newline
LineOf(cs) == Anchored(Re(<< Atom(cs, "1"), Atom(NotNL, "*"), Atom({NL}, "1") >>))

Grammar(kind, mk, tt, et) ==
  [kind |-> kind, mk |-> mk, token_types |-> tt, error_types |-> et]

\* examples/apidoc/TokenizerBase1.py on the alphabet of the model
GWords ==
  Grammar("char", Identity,
          [i \in {"Word", "Separator"} |->
             IF i = "Word" THEN TokenType(Plus({"a"})) ELSE TokenType(Plus({NL}))],
          [i \in {"SyntaxError"} |-> ErrorType(Plus(NotNL), "syntax error")])

\* two token types that match the same prefixes with different lengths
GLongest ==
  Grammar("char", Identity,
          [i \in {"Word", "Ident", "Separator"} |->
             IF i = "Word" THEN TokenType(Plus({"a"}))
             ELSE IF i = "Ident" THEN TokenType(Plus(NotNL))
             ELSE TokenType(Plus({NL}))],
          [i \in {"SyntaxError"} |-> ErrorType(Plus(NotNL), "syntax error")])

\* error types that match together, or not at all
GFatal ==
  Grammar("char", Identity,
          [i \in {"Word", "Letter"} |->
             IF i = "Word" THEN TokenType(Plus({"a"})) ELSE TokenType(One({"a"}))],
          [i \in {"Bs", "Letters"} |->
             IF i = "Bs" THEN ErrorType(Plus({"b"}), "b")
             ELSE ErrorType(Plus(NotNL), "letters")])

\* token types that tie, and an error type that does not match where they do
GTie ==
  Grammar("char", Identity,
          [i \in {"Word", "Letter"} |->
             IF i = "Word" THEN TokenType(Plus({"a"})) ELSE TokenType(One({"a"}))],
          [i \in {"Bs"} |-> ErrorType(Plus({"b"}), "b")])

\* a token type that matches the empty string
GZero ==
  Grammar("char", Identity,
          [i \in {"Opt", "Separator"} |->
             IF i = "Opt" THEN TokenType(Star({"a"})) ELSE TokenType(Plus({NL}))],
          [i \in {"SyntaxError"} |-> ErrorType(Plus(NotNL), "syntax error")])

\* an error type that matches the empty string
GZeroErr ==
  Grammar("char", Identity,
          [i \in {"Word"} |-> TokenType(Plus({"a"}))],
          [i \in {"Soft"} |-> ErrorType(Star({"b"}), "soft")])

\* a character buffer whose FSM string is made by FSM-char patterns
GClasses ==
  Grammar("char",
          ByPatterns([c \in {"w", "s"} |->
             IF c = "w" THEN Anchored(One(NotNL)) ELSE Anchored(One({NL}))]),
          [i \in {"Word", "Separator"} |->
             IF i = "Word" THEN TokenType(Plus({"w"})) ELSE TokenType(Plus({"s"}))],
          [i \in {"SyntaxError"} |-> ErrorType(Plus({NUL}), "syntax error")])

\* the line grammar of the TokenizerBase documentation: comment lines,
\* text lines, empty lines; an incomplete line has no class
GLines ==
  Grammar("line",
          ByPatterns([c \in {"#", "L", " "} |->
             IF c = "#" THEN LineOf({"b"})
             ELSE IF c = "L" THEN LineOf({"a"})
             ELSE Anchored(Re(<< Atom({NL}, "?") >>))]),
          [i \in {"Comment", "Para", "Blank"} |->
             IF i = "Comment" THEN TokenType(Plus({"#"}))
             ELSE IF i = "Para" THEN TokenType(Plus({"L"}))
             ELSE TokenType(Plus({" "}))],
          [i \in {"Incomplete"} |-> ErrorType(One({NUL}), "incomplete line")])

\* FSM-char patterns that are not mutually exclusive
GOverlap ==
  Grammar("line",
          ByPatterns([c \in {"L", "X"} |->
             IF c = "L" THEN LineOf({"a"})
             ELSE Anchored(Re(<< Atom(NotNL, "1"), Atom({NL}, "1") >>))]),
          [i \in {"Para"} |-> TokenType(Plus({"L"}))],
          [i \in {"Other"} |-> ErrorType(One({NUL, "X"}), "other line")])

Grammars ==
  {GWords, GLongest, GFatal, GTie, GZero, GZeroErr, GClasses, GLines, GOverlap}

(***************************************************************************)
(* Inputs.                                                                 *)
(***************************************************************************)
Strs(n) == UNION {[1..k -> Chars] : k \in 0..n}

StringInput(text) == [mode |-> "string", data |-> text, tell |-> 0]
ReadInput(text) == [mode |-> "read", data |-> text, tell |-> 0]
IterInput(pieces) == [mode |-> "iter", data |-> pieces, tell |-> 0]

\* the pieces of an iterator: strings over PieceChars, the empty one included;
\* an iterator yields at most MaxPieces pieces, of MaxLen characters in all
PieceChars == {"a", NL}
Pieces == UNION {[1..k -> PieceChars] : k \in 0..MaxPieceLen}

Inputs ==
  {StringInput(t) : t \in Strs(MaxLen)}
  \cup {ReadInput(t) : t \in Strs(MaxLen)}
  \cup {IterInput(ps) : ps \in {q \in UNION {[1..k -> Pieces] : k \in 0..MaxPieces} :
                                   SumLen(q) <= MaxLen}}

\* the whole text of an input, and the text of it that is not read yet
InputText(input) == IF input.mode = "iter" THEN Join(input.data) ELSE input.data
UnreadText(input) ==
  IF input.mode = "iter" THEN Join(Remaining(input)) ELSE Remaining(input)

\* the text of an input that has been read from it
ReadText(input) ==
  IF input.mode = "iter" THEN Join(PySlice(input.data, 0, input.tell))
  ELSE PySlice(input.data, 0, input.tell)

Markers == {<< 0, 0, 0 >>, << 1, 2, 5 >>}

\* the tokens variable keeps the first MaxTokens tokens returned: one more
\* than an input has characters
MaxTokens == MaxLen + 1

NoObs ==
  [act |-> "init", cause |-> "", pre |-> Blank("char", Identity, 1),
   seen |-> FALSE, lens |-> EmptyTab, elens |-> EmptyTab, nitems |-> 0, tok |-> NoToken]

\* no buffer method called yet: name is the method, ok is FALSE when the call
\* raised, n is the count given to shift, kw the fsm_str keyword given to
\* assign, s the buffer shift returned, size what extend returned
NoOp ==
  [name |-> "init", ok |-> TRUE, n |-> 0, kw |-> NoFsm,
   s |-> Blank("char", Identity, 1), size |-> 0, cls |-> "", id |-> ""]

\* a buffer just made at the start marker m: stream is TRUE while only extend
\* and shift have been called, out is then the text of the buffers that shift
\* returned, in order; fits is TRUE while every FSM string given to assign
\* had as many characters as the content given with it had items; last is,
\* for the dictionary of each class and each id, the last call on it that
\* returned: "define", "redefine" (a define after a remove), "remove" or
\* "none"; next is
\* the input the program binds second, rebound tells that it has done so, and
\* whole that the first input had been read to its end when it was replaced;
\* forms tells how far the two call sequences extend(n); shift(k); extend(m)
\* and extend(n + m); shift(k) have come, and with which n, k and m
NoForms == [at |-> "start", n |-> 0, k |-> 0, m |-> 0]

\* the ids and the regular expressions given to the registry methods
RegIds == {"x", "y"}
RegRes == {Re(<< Atom({"a"}, "1") >>), Re(<< Atom({"b"}, "+") >>)}

\* what a program calls the registry methods with: the methods of one class
\* with two ids and two regular expressions, or the methods of every class
\* with one id and one regular expression
Uses ==
  {[cls |-> {"A"}, ids |-> RegIds, res |-> RegRes],
   [cls |-> Classes, ids |-> {"x"}, res |-> {Re(<< Atom({"a"}, "1") >>)}]}

\* the registry of a program that works with one of the four registries
\* of its tokenizer classes, before any class has the attribute
NoClasses(registry, use) ==
  [registry |-> registry, own |-> [c \in Classes |-> NoAttr], use |-> use]

NoHist(m) ==
  [stream |-> TRUE, out |-> << >>, m0 |-> m, fits |-> TRUE,
   next |-> NoInput, rebound |-> FALSE, whole |-> FALSE, forms |-> NoForms,
   last |-> [c \in Classes |-> [i \in RegIds \cup {NUL} |-> "none"]]]

(***************************************************************************)
(* The tokenizer: TokenizerBase.__init__, then token() called by __iter__  *)
(* until it returns None.                                                  *)
(***************************************************************************)
Init ==
  \E g \in Grammars, chunk \in 1..MaxChunk, input \in Inputs, m \in Markers,
     mi \in {SmallIterations, _max_iterations} :
    /\ buffer = NewBuffer(g.kind, g.mk, chunk, input, m[1], m[2], m[3],
                          TRUE, << >>, NoFsm).buf
    /\ token_types = g.token_types
    /\ error_types = g.error_types
    /\ max_iterations = mi
    /\ pc = "idle"
    /\ eoi = FALSE
    /\ iter_counter = 0
    /\ tokens = << >>
    /\ obs = NoObs
    /\ buf0 = buffer
    /\ op = NoOp
    /\ hist = NoHist(m)
    /\ classes = NoClasses("_token_types", CHOOSE use \in Uses : TRUE)

\* __iter__ calls token(): eoi = False, iter_counter = 0
TokenCall ==
  /\ pc = "idle"
  /\ pc' = "loop"
  /\ eoi' = FALSE
  /\ iter_counter' = 0
  /\ buf0' = buffer
  /\ UNCHANGED << buffer, token_types, error_types, max_iterations, tokens, obs,
                  op, hist, classes >>

\* the while loop of token(): the loop test and one iteration
TokenIter ==
  /\ pc = "loop"
  /\ IF iter_counter < max_iterations
     THEN \E o \in {LoopBody(buffer, eoi)} :
             /\ iter_counter' = iter_counter + 1
             /\ buffer' = o.buf
             /\ eoi' = o.eoi
             /\ obs' = [act |-> o.act, cause |-> o.cause, pre |-> o.pre,
                        seen |-> o.seen, lens |-> o.lens, elens |-> o.elens, nitems |-> o.nitems,
                        tok |-> o.tok]
             /\ tokens' = IF o.act = "token" /\ Len(tokens) < MaxTokens
                          THEN Append(tokens, o.tok) ELSE tokens
             /\ pc' = CASE o.act = "token" -> "idle"
                        [] o.act = "none" -> "done"
                        [] o.act = "raise" -> "raised"
                        [] OTHER -> "loop"
     ELSE /\ pc' = "raised"
          /\ obs' = [NoObs EXCEPT !.act = "raise", !.cause = "loop", !.pre = buffer,
                             !.seen = eoi]
          /\ UNCHANGED << buffer, eoi, iter_counter, tokens >>
  /\ UNCHANGED << token_types, error_types, max_iterations, buf0, op, hist,
                  classes >>

Next == TokenCall \/ TokenIter

Spec == Init /\ [][Next]_vars

(***************************************************************************)
(* A buffer used on its own: made empty by __init__, then assign,          *)
(* set_start_marker, bind, extend and shift called in any order.  A call   *)
(* that raises ends the use of the buffer.  The text held and the text     *)
(* still to be read are MaxLen characters together, at most.               *)
(***************************************************************************)
\* the buffer classes of the grammars: the variant and the FSM mapping
BufferClasses == {[kind |-> g.kind, mk |-> g.mk] : g \in Grammars}

\* the contents given to assign: a text, as a string for a character buffer
\* and as its list of lines for a line buffer
AssignTexts == {<< >>, << "b" >>, << "b", NL >>}
Content(kind, text) == IF kind = "char" THEN text ELSE SplitLinesKeep(text)

\* the bare strings given to the assign of a line buffer
BareStrings == {<< "b", NL, "b" >>}

\* the contents given to assign, each with the text it holds, as _do_assign
\* takes them: the characters or the list of lines as they are, and a bare
\* string given to a line buffer as the lines content.splitlines() makes
Contents(kind) ==
  {[text |-> t, content |-> Content(kind, t)] : t \in AssignTexts}
    \cup (IF kind = "line"
          THEN {[text |-> t, content |-> SplitLines(t)] : t \in BareStrings}
          ELSE {})

\* the fsm_str keywords given to assign with a content: none, an FSM string
\* of as many characters as the content has items, and one of one more
Xs(n) == [i \in 1..n |-> "x"]
FsmArgs(content) == {NoFsm, WithFsm(Xs(Len(content))), WithFsm(Xs(Len(content) + 1))}

\* the inputs given to __init__ and to bind
BindInputs ==
  {NoInput, StringInput(<< NL, "a" >>), ReadInput(<< "a", NL >>),
   IterInput(<< << "a" >>, << NL >> >>)}

TokenizerVars ==
  << token_types, error_types, max_iterations, pc, eoi, iter_counter, tokens,
     obs, buf0, classes >>

\* a buffer class with _default_chunk = MaxChunk, instantiated with an input
\* of the set inputs, a start marker and no content
MakeBuffer(inputs) ==
  \E cls \in BufferClasses, input \in inputs, m \in Markers :
    /\ buffer = NewBuffer(cls.kind, cls.mk, MaxChunk, input, m[1], m[2], m[3],
                          TRUE, << >>, NoFsm).buf
    /\ token_types = EmptyTab
    /\ error_types = EmptyTab
    /\ max_iterations = _max_iterations
    /\ pc = "idle"
    /\ eoi = FALSE
    /\ iter_counter = 0
    /\ tokens = << >>
    /\ obs = NoObs
    /\ buf0 = buffer
    /\ op = NoOp
    /\ hist = NoHist(m)
    /\ classes = NoClasses("_token_types", CHOOSE use \in Uses : TRUE)

BufInit == MakeBuffer(BindInputs)

\* buffer.assign(line_no, col_no, char_no, content, fsm_str = ...)
BufAssign ==
  /\ op.ok
  /\ \E m \in Markers, none \in BOOLEAN, c \in Contents(buffer.kind) :
       \E kw \in FsmArgs(c.content) :
         /\ none => (c.text = << >> /\ kw = NoFsm)
         /\ Len(c.text) + Len(UnreadText(buffer.input)) <= MaxLen
         /\ \E r \in {assign(buffer, m[1], m[2], m[3], none, c.content, kw)} :
              /\ buffer' = r.buf
              /\ op' = [NoOp EXCEPT !.name = "assign", !.ok = r.ok, !.kw = kw]
              /\ hist' = [hist EXCEPT
                            !.stream = FALSE, !.out = << >>,
                            !.fits = @ /\ (kw.given =>
                                             Len(kw.str) = Len(c.content))]
  /\ UNCHANGED TokenizerVars

\* buffer.set_start_marker(line_no, col_no, char_no)
BufSetStartMarker ==
  /\ op.ok
  /\ \E m \in Markers :
       buffer' = set_start_marker(buffer, m[1], m[2], m[3])
  /\ op' = [NoOp EXCEPT !.name = "set_start_marker"]
  /\ hist' = [hist EXCEPT !.stream = FALSE, !.out = << >>]
  /\ UNCHANGED TokenizerVars

\* buffer.bind(input), of a buffer that has no input yet
BufBind ==
  /\ op.ok
  /\ buffer.input.mode = "none"
  /\ \E input \in BindInputs :
       /\ Len(BufStr(buffer)) + Len(InputText(input)) <= MaxLen
       /\ buffer' = bind(buffer, input)
  /\ op' = [NoOp EXCEPT !.name = "bind"]
  /\ hist' = [hist EXCEPT !.stream = FALSE, !.out = << >>]
  /\ UNCHANGED TokenizerVars

\* buffer.extend(chunk_size), chunk_size = None included
BufExtend ==
  /\ op.ok
  /\ \E none \in BOOLEAN, n \in 1..MaxChunk :
       /\ none => n = 1
       /\ \E r \in {extend(buffer, IF none THEN buffer.chunk ELSE n)} :
            /\ buffer' = r.buf
            /\ op' = [NoOp EXCEPT !.name = "extend", !.ok = r.ok, !.size = r.size]
  /\ UNCHANGED << hist, TokenizerVars >>

\* buffer.shift(count), count = None and count = len + 1 included
BufShift ==
  /\ op.ok
  /\ \E none \in BOOLEAN, n \in 0..(Len(buffer.content) + 1) :
       /\ none => n = Len(buffer.content)
       /\ \E r \in {shift(buffer, n)} :
            /\ buffer' = r.buf
            /\ op' = [NoOp EXCEPT !.name = "shift", !.ok = r.ok, !.n = n, !.s = r.s]
            /\ hist' = IF hist.stream /\ r.ok
                       THEN [hist EXCEPT !.out = @ \o BufStr(r.s)]
                       ELSE hist
  /\ UNCHANGED TokenizerVars

BufNext == BufAssign \/ BufSetStartMarker \/ BufBind \/ BufExtend \/ BufShift

BufSpec == BufInit /\ [][BufNext]_vars

(***************************************************************************)
(* A buffer used as a stream: made empty and bound to an input by          *)
(* __init__, then only extend and shift called, in any order.              *)
(***************************************************************************)
StreamInit == MakeBuffer(Inputs \cup {NoInput})

StreamNext == BufExtend \/ BufShift

StreamSpec == StreamInit /\ [][StreamNext]_vars

(***************************************************************************)
(* A buffer that is only filled: made empty and bound to an input by       *)
(* __init__, then extend(chunk_size) called again and again, also after    *)
(* the input has run out; op.n keeps the chunk size of the last call.      *)
(* Some of the iterators yield pieces that are longer than a chunk.        *)
(***************************************************************************)
\* iterators that also yield pieces of two characters
WidePieces == {<< >>, << NL >>, << "a", "a" >>, << "a", NL >>}
WideInputs == {IterInput(ps) : ps \in [1..2 -> WidePieces]}

ExtendInit == MakeBuffer(Inputs \cup WideInputs)

ExtendCall ==
  /\ op.ok
  /\ \E chunk_size \in 1..MaxChunk :
       \E r \in {extend(buffer, chunk_size)} :
         /\ buffer' = r.buf
         /\ op' = [NoOp EXCEPT !.name = "extend", !.ok = r.ok,
                               !.n = chunk_size, !.size = r.size]
  /\ UNCHANGED << hist, TokenizerVars >>

ExtendNext == ExtendCall

ExtendSpec == ExtendInit /\ [][ExtendNext]_vars

(***************************************************************************)
(* A line buffer whose items are assigned: filled by extend as above, with *)
(* buf[index] = line called in between; op.n keeps the index.              *)
(***************************************************************************)
\* LineOrientedBuffer.__setitem__(index, content): the item is stored, the
\* FSM string of content is made (of its characters, a string being given
\* where a list of lines is taken), and this is stored at index into the FSM
\* string: a list, as `return items` makes it, takes it; a str, as the
\* patterns make it, raises TypeError.  An index out of range raises
\* IndexError at the first assignment.
__setitem__(b, index, content) ==
  IF index < 0 \/ index >= Len(b.content) THEN [ok |-> FALSE, buf |-> b]
  ELSE LET b1 == [b EXCEPT !.content[index + 1] = content]
           items == IF b.mk.mode = "identity" THEN content
                    ELSE [j \in 1..Len(content) |-> << content[j] >>]
       IN The({ IF f.ok /\ b.mk.mode = "identity" /\ index < Len(b.fsm)
                THEN [ok |-> TRUE, buf |-> [b1 EXCEPT !.fsm[index + 1] = f.str]]
                ELSE [ok |-> FALSE, buf |-> b1]
                : f \in {make_fsm_str(b.kind, b.mk, items)} })

\* the lines assigned to items
ItemLines == {<< "a", NL >>, << "b", NL >>}

\* buf[index] = line, index = len(buf) included
BufSetItem ==
  /\ op.ok
  /\ buffer.kind = "line"
  /\ \E index \in 0..Len(buffer.content), line \in ItemLines :
       \E r \in {__setitem__(buffer, index, line)} :
         /\ buffer' = r.buf
         /\ op' = [NoOp EXCEPT !.name = "setitem", !.ok = r.ok, !.n = index]
  /\ UNCHANGED << hist, TokenizerVars >>

ItemNext == ExtendCall \/ BufSetItem

ItemSpec == ExtendInit /\ [][ItemNext]_vars

(***************************************************************************)
(* A buffer whose input is replaced: made empty and bound to a first input *)
(* (or to none), then extend, bind(None) and the bind of a second input    *)
(* called in any order.  The two inputs are of one kind, over PieceChars,  *)
(* and have MaxLen characters together, at most; buf0 is the buffer as it  *)
(* would be made for the two inputs put together in one.                   *)
(***************************************************************************)
OverPieceChars(text) == \A i \in 1..Len(text) : text[i] \in PieceChars

InputPairs ==
  {p \in (Inputs \cup {NoInput}) \X Inputs :
     /\ p[1].mode \in {"none", p[2].mode}
     /\ OverPieceChars(InputText(p[1]) \o InputText(p[2]))
     /\ Len(InputText(p[1])) + Len(InputText(p[2])) <= MaxLen
     /\ Len(p[1].data) + Len(p[2].data) <= MaxLen}

\* the input that yields what first yields, then what second yields
Concat(first, second) ==
  [mode |-> second.mode, data |-> first.data \o second.data, tell |-> 0]

RebindInit ==
  \E cls \in BufferClasses, p \in InputPairs, m \in Markers :
    /\ buffer = NewBuffer(cls.kind, cls.mk, MaxChunk, p[1], m[1], m[2], m[3],
                          TRUE, << >>, NoFsm).buf
    /\ buf0 = NewBuffer(cls.kind, cls.mk, MaxChunk, Concat(p[1], p[2]),
                        m[1], m[2], m[3], TRUE, << >>, NoFsm).buf
    /\ token_types = EmptyTab
    /\ error_types = EmptyTab
    /\ max_iterations = _max_iterations
    /\ pc = "idle"
    /\ eoi = FALSE
    /\ iter_counter = 0
    /\ tokens = << >>
    /\ obs = NoObs
    /\ op = NoOp
    /\ hist = [NoHist(m) EXCEPT !.next = p[2]]
    /\ classes = NoClasses("_token_types", CHOOSE use \in Uses : TRUE)

\* what a bind records: the first input is left behind by the first bind
Left ==
  [hist EXCEPT !.stream = FALSE, !.out = << >>,
               !.whole = IF hist.stream THEN Remaining(buffer.input) = << >> ELSE @]

\* buffer.bind(None)
BufDetach ==
  /\ op.ok
  /\ buffer.input.mode # "none"
  /\ buffer' = bind(buffer, NoInput)
  /\ op' = [NoOp EXCEPT !.name = "bind"]
  /\ hist' = Left
  /\ UNCHANGED TokenizerVars

\* buffer.bind(input) with the second input
BufRebind ==
  /\ op.ok
  /\ ~hist.rebound
  /\ buffer' = bind(buffer, hist.next)
  /\ op' = [NoOp EXCEPT !.name = "bind"]
  /\ hist' = [Left EXCEPT !.rebound = TRUE]
  /\ UNCHANGED TokenizerVars

RebindNext == BufExtend \/ BufDetach \/ BufRebind

RebindSpec == RebindInit /\ [][RebindNext]_vars

(***************************************************************************)
(* Two buffers made alike, with an assigned content and an input of        *)
(* MaxLen + 1 characters over PieceChars (an iterator yields them one by   *)
(* one): buffer is taken through extend(n); shift(k); extend(m), and buf0  *)
(* then through extend(n + m); shift(k).                                   *)
(***************************************************************************)
LongTexts == [1..(MaxLen + 1) -> PieceChars]

LongInputs ==
  {StringInput(t) : t \in LongTexts}
  \cup {ReadInput(t) : t \in LongTexts}
  \cup {IterInput([i \in 1..Len(t) |-> << t[i] >>]) : t \in LongTexts}

FormsInit ==
  \E cls \in BufferClasses, input \in LongInputs, m \in Markers,
     text \in {<< >>, << "b" >>} :
    /\ buffer = NewBuffer(cls.kind, cls.mk, MaxChunk, input, m[1], m[2], m[3],
                          FALSE, Content(cls.kind, text), NoFsm).buf
    /\ buf0 = buffer
    /\ token_types = EmptyTab
    /\ error_types = EmptyTab
    /\ max_iterations = _max_iterations
    /\ pc = "idle"
    /\ eoi = FALSE
    /\ iter_counter = 0
    /\ tokens = << >>
    /\ obs = NoObs
    /\ op = NoOp
    /\ hist = NoHist(m)
    /\ classes = NoClasses("_token_types", CHOOSE use \in Uses : TRUE)

FormsUnchanged ==
  UNCHANGED << token_types, error_types, max_iterations, pc, eoi, iter_counter,
               tokens, obs, classes >>

\* buffer.extend(n)
FirstExtend ==
  /\ op.ok /\ hist.forms.at = "start"
  /\ \E n \in 1..MaxChunk :
       \E r \in {extend(buffer, n)} :
         /\ buffer' = r.buf
         /\ op' = [NoOp EXCEPT !.name = "extend", !.ok = r.ok, !.size = r.size]
         /\ hist' = [hist EXCEPT !.forms.at = "extended", !.forms.n = n]
  /\ UNCHANGED buf0 /\ FormsUnchanged

\* buffer.shift(k), k no more than the buffer holds
FirstShift ==
  /\ op.ok /\ hist.forms.at = "extended"
  /\ \E k \in 0..Len(buffer.content) :
       \E r \in {shift(buffer, k)} :
         /\ buffer' = r.buf
         /\ op' = [NoOp EXCEPT !.name = "shift", !.ok = r.ok, !.n = k, !.s = r.s]
         /\ hist' = [hist EXCEPT !.forms.at = "shifted", !.forms.k = k]
  /\ UNCHANGED buf0 /\ FormsUnchanged

\* buffer.extend(m)
SecondExtend ==
  /\ op.ok /\ hist.forms.at = "shifted"
  /\ \E m \in 1..MaxChunk :
       \E r \in {extend(buffer, m)} :
         /\ buffer' = r.buf
         /\ op' = [NoOp EXCEPT !.name = "extend", !.ok = r.ok, !.size = r.size]
         /\ hist' = [hist EXCEPT !.forms.at = "one", !.forms.m = m]
  /\ UNCHANGED buf0 /\ FormsUnchanged

\* buf0.extend(n + m)
BothExtend ==
  /\ op.ok /\ hist.forms.at = "one"
  /\ \E r \in {extend(buf0, hist.forms.n + hist.forms.m)} :
       /\ buf0' = r.buf
       /\ op' = [NoOp EXCEPT !.name = "extend", !.ok = r.ok, !.size = r.size]
       /\ hist' = [hist EXCEPT !.forms.at = "both"]
  /\ UNCHANGED buffer /\ FormsUnchanged

\* buf0.shift(k)
LastShift ==
  /\ op.ok /\ hist.forms.at = "both"
  /\ \E r \in {shift(buf0, hist.forms.k)} :
       /\ buf0' = r.buf
       /\ op' = [NoOp EXCEPT !.name = "shift", !.ok = r.ok, !.n = hist.forms.k,
                             !.s = r.s]
       /\ hist' = [hist EXCEPT !.forms.at = "done"]
  /\ UNCHANGED buffer /\ FormsUnchanged

FormsNext == FirstExtend \/ FirstShift \/ SecondExtend \/ BothExtend \/ LastShift

FormsSpec == FormsInit /\ [][FormsNext]_vars

(***************************************************************************)
(* The registries of the tokenizer classes: a program works with one of    *)
(* the four registries and calls its define, remove and lookup methods on  *)
(* TokenizerBase and on the classes derived from it, in any order.  A call *)
(* that raises leaves the program running.                                 *)
(***************************************************************************)
RegistryInit ==
  \E registry \in Registries, use \in Uses :
    /\ classes = NoClasses(registry, use)
    /\ buffer = Blank("char", Identity, MaxChunk)
    /\ buf0 = buffer
    /\ token_types = EmptyTab
    /\ error_types = EmptyTab
    /\ max_iterations = _max_iterations
    /\ pc = "idle"
    /\ eoi = FALSE
    /\ iter_counter = 0
    /\ tokens = << >>
    /\ obs = NoObs
    /\ op = NoOp
    /\ hist = NoHist(<< 0, 0, 0 >>)

RegistryUnchanged ==
  UNCHANGED << buffer, token_types, error_types, max_iterations, pc, eoi,
               iter_counter, tokens, obs, buf0 >>

\* the registry after a method of cls has worked on the dictionary its
\* accessor returned: a is what the accessor gave, r what the method did
Called(a, r) == [classes EXCEPT !.own = [a.own EXCEPT ![a.at].tab = r.tab]]

\* the ids given to the define methods: def_fsm_char_pattern is also called
\* with the reserved character
DefIds ==
  classes.use.ids
    \cup (IF classes.registry = "_fsm_char_patterns" THEN {NUL} ELSE {})

\* def_fsm_char_pattern refuses the reserved character before it calls the
\* accessor
Reserved(_id) == classes.registry = "_fsm_char_patterns" /\ _id = NUL

\* cls.def_pattern(_id, regex), cls.def_fsm_char_pattern(ch, regex),
\* cls.def_token_type(_id, pattern), cls.def_error_type(_id, pattern, message)
ClsDefine ==
  \E cls \in classes.use.cls, _id \in DefIds, re \in classes.use.res :
    \E a \in {IF Reserved(_id) THEN [own |-> classes.own, at |-> cls]
               ELSE Accessor(classes.own, cls)} :
      \E r \in {Define(classes.registry, a.own[a.at].tab, _id, re)} :
        /\ classes' = Called(a, r)
        /\ op' = [NoOp EXCEPT !.name = "define", !.ok = r.ok, !.cls = cls, !.id = _id]
        /\ hist' = IF r.ok
                   THEN [hist EXCEPT !.last[a.at][_id] =
                                       IF @ = "none" THEN "define" ELSE "redefine"]
                   ELSE hist
        /\ RegistryUnchanged

\* cls.del_pattern(_id), cls.del_fsm_char_pattern(ch), cls.del_token_type(_id),
\* cls.del_error_type(_id)
ClsRemove ==
  \E cls \in classes.use.cls, _id \in classes.use.ids :
    \E a \in {Accessor(classes.own, cls)} :
      \E r \in {Remove(classes.registry, a.own[a.at].tab, _id)} :
        /\ classes' = Called(a, r)
        /\ op' = [NoOp EXCEPT !.name = "remove", !.ok = r.ok, !.cls = cls, !.id = _id]
        /\ hist' = IF r.ok THEN [hist EXCEPT !.last[a.at][_id] = "remove"] ELSE hist
        /\ RegistryUnchanged

\* cls.pattern(_id), cls.fsm_char_pattern(ch), cls.token_type(_id),
\* cls.error_type(_id)
ClsLookup ==
  \E cls \in classes.use.cls, _id \in classes.use.ids :
    \E a \in {Accessor(classes.own, cls)} :
      \E r \in {Lookup(classes.registry, a.own[a.at].tab, _id)} :
        /\ classes' = Called(a, r)
        /\ op' = [NoOp EXCEPT !.name = "lookup", !.ok = r.ok, !.cls = cls, !.id = _id]
        /\ UNCHANGED hist
        /\ RegistryUnchanged

RegistryNext == ClsDefine \/ ClsRemove \/ ClsLookup

RegistrySpec == RegistryInit /\ [][RegistryNext]_vars

(***************************************************************************)
(* Properties of the tokenizer.                                            *)
(***************************************************************************)
\* the values of a sequence of tokens, concatenated
RECURSIVE TokValues(_)
TokValues(ts) == IF ts = << >> THEN << >> ELSE Head(ts).value \o TokValues(Tail(ts))

\* the last iteration committed: it returned a token or raised in _error_token
Committed == obs.act = "token" \/ (obs.act = "raise" /\ obs.cause = "error_type")

\* the text of the first n items of a buffer
HeadText(b, n) ==
  IF b.kind = "char" THEN PySlice(b.content, 0, n) ELSE Join(PySlice(b.content, 0, n))

\* C1: when the iteration has ended (token() returned None) without a fatal
\* error, the values of the tokens returned, concatenated in order, are the
\* whole input.
C1_RoundTrip ==
  pc = "done" => TokValues(tokens) = InputText(buffer.input)

\* C2: each token starts where the one before it ended (char + len(value)),
\* and its (line, col) is not before that of the one before it.
C2_PositionMonotone ==
  \A i \in 1..(Len(tokens) - 1) :
    LET t1 == tokens[i]
        t2 == tokens[i + 1]
    IN /\ t1.char_no + Len(t1.value) = t2.char_no
       /\ \/ t1.line_no < t2.line_no
          \/ (t1.line_no = t2.line_no /\ t1.col_no <= t2.col_no)

C2_Witness ==
  /\ Len(tokens) >= 3
  /\ \E i \in 1..Len(tokens) : tokens[i].is_error
  /\ \E i \in 1..(Len(tokens) - 1) : tokens[i].line_no < tokens[i + 1].line_no
  /\ \E i \in 1..(Len(tokens) - 1) : tokens[i].col_no < tokens[i + 1].col_no

\* C3: a regular token returned is that of the one pattern with the longest
\* match on the FSM string, never that of a pattern with a shorter match, and
\* it holds exactly as many items as that match is long.
C3_LongestMatch ==
  (obs.act = "token" /\ ~obs.tok.is_error) =>
    /\ obs.tok.id \in DOMAIN obs.lens
    /\ \A a \in DOMAIN obs.lens : a # obs.tok.id => obs.lens[a] < obs.lens[obs.tok.id]
    /\ obs.nitems = obs.lens[obs.tok.id]
    /\ obs.tok.value = HeadText(obs.pre, obs.lens[obs.tok.id])

C3_Witness ==
  /\ obs.act = "token" /\ ~obs.tok.is_error
  /\ \E a \in DOMAIN obs.lens : a # obs.tok.id /\ obs.lens[a] > 0
  /\ obs.lens[obs.tok.id] >= 2

\* C4: no regular token whose match spans the whole FSM string is committed
\* while unread input remains; a commit with a whole-string match happens
\* only with eoi set, and eoi is set only when the input is exhausted.
C4_ExtendOnFullMatch ==
  /\ (Committed /\ \E a \in DOMAIN obs.lens : obs.lens[a] = Len(obs.pre.fsm)) =>
       (obs.seen /\ UnreadText(obs.pre.input) = << >>)
  /\ (pc = "loop" /\ eoi) => UnreadText(buffer.input) = << >>

\* C5: with no token pattern matching and exactly one error pattern matching,
\* token() returns an error token of that error type, at the start marker the
\* buffer had, holding the first items of the buffer as far as the error
\* pattern matched; exactly these items leave the buffer.  Regular tokens
\* have is_error false and an empty message.
C5_ErrorToken ==
  /\ (obs.act \in {"token", "raise"} /\ obs.cause \in {"error", "error_type", "shift"}
      /\ DOMAIN obs.lens = {} /\ Cardinality(DOMAIN obs.elens) = 1) =>
       LET id == CHOOSE i \in DOMAIN obs.elens : TRUE
           n == obs.elens[id]
       IN /\ obs.act = "token"
          /\ obs.tok.is_error
          /\ obs.tok.id = id
          /\ obs.tok.message = error_types[id].message
          /\ obs.tok.line_no = obs.pre.line_no
          /\ obs.tok.col_no = obs.pre.col_no
          /\ obs.tok.char_no = obs.pre.char_no
          /\ obs.tok.value = HeadText(obs.pre, n)
          /\ obs.nitems = n
          /\ buffer.content = PySlice(obs.pre.content, n, Len(obs.pre.content))
          /\ buffer.char_no = obs.pre.char_no + Len(obs.tok.value)
  /\ (obs.act = "token" /\ obs.cause = "match") =>
       (~obs.tok.is_error /\ obs.tok.message = "")

C5_Witness ==
  /\ obs.act = "token" /\ obs.cause = "error" /\ DOMAIN obs.lens = {}
  /\ obs.tok.is_error /\ obs.tok.message = "syntax error"
  /\ Len(buffer.content) > 0
  /\ obs.pre.char_no > 0

\* two or more token patterns share the longest match
Tie(lens) ==
  \E a, c \in DOMAIN lens :
    a # c /\ lens[a] = lens[c] /\ \A d \in DOMAIN lens : lens[d] <= lens[a]

\* C6 as stated: when token patterns tie for the longest match at the commit,
\* no regular token is returned and an error token is emitted at the buffer's
\* start marker.
C6_AsStated ==
  (Committed /\ Tie(obs.lens)) =>
    /\ obs.act = "token"
    /\ obs.tok.is_error
    /\ obs.tok.id \in DOMAIN error_types
    /\ obs.tok.line_no = obs.pre.line_no
    /\ obs.tok.col_no = obs.pre.col_no
    /\ obs.tok.char_no = obs.pre.char_no

\* C6 amended: when token patterns tie for the longest match at the commit,
\* no regular token is returned; the FSM string goes to the error registry,
\* which gives an error token at the buffer's start marker when exactly one
\* error pattern matches, and a fatal failure otherwise.
C6_Ambiguity ==
  (Committed /\ Tie(obs.lens)) =>
    /\ obs.cause \in {"error", "error_type"}
    /\ obs.act = "token" <=> Cardinality(find_matching_tokens(error_types, obs.pre.fsm)) = 1
    /\ obs.act = "raise" <=> Cardinality(find_matching_tokens(error_types, obs.pre.fsm)) # 1
    /\ obs.act = "token" =>
         /\ obs.tok.is_error
         /\ obs.tok.id \in DOMAIN error_types
         /\ obs.tok.line_no = obs.pre.line_no
         /\ obs.tok.col_no = obs.pre.col_no
         /\ obs.tok.char_no = obs.pre.char_no

C6_Witness ==
  /\ obs.act = "token" /\ Tie(obs.lens) /\ obs.tok.is_error
  /\ obs.pre.char_no > 0

\* the buffer, but for the input bound to it
State(b) ==
  << b.content, b.fsm, b.line_no, b.col_no, b.char_no,
     b.end_line_no, b.end_col_no, b.end_char_no >>

\* C7 as stated: when _error_token finds no or several error patterns,
\* token() raises and the buffer is as it was before the call.
C7_AsBeforeCall ==
  (pc = "raised" /\ obs.cause = "error_type") => State(buffer) = State(buf0)

\* C7 amended: token() raises and nothing is shifted out: the start marker is
\* as before the call, the buffer is as the call's reading left it (as before
\* the call if the call read nothing), and it holds the text it held before
\* the call followed by the text the call read.
C7_NothingShifted ==
  (pc = "raised" /\ obs.cause = "error_type") =>
    /\ Cardinality(DOMAIN obs.elens) # 1
    /\ buffer = obs.pre
    /\ buffer.line_no = buf0.line_no
    /\ buffer.col_no = buf0.col_no
    /\ buffer.char_no = buf0.char_no
    /\ buffer.input = buf0.input => buffer = buf0
    /\ BufStr(buffer) =
         BufStr(buf0) \o SubSeq(InputText(buffer.input),
                                Len(InputText(buf0.input)) - Len(UnreadText(buf0.input)) + 1,
                                Len(InputText(buffer.input)) - Len(UnreadText(buffer.input)))

C7_Witness ==
  /\ pc = "raised" /\ obs.cause = "error_type"
  /\ Len(tokens) > 0
  /\ buffer # buf0

C7_WitnessMany ==
  /\ pc = "raised" /\ obs.cause = "error_type"
  /\ Cardinality(DOMAIN obs.elens) > 1

\* C8: the iteration over a finite input returns finitely many tokens and
\* then stops.  The tokenizer is deterministic, so it stops only if no call
\* of token() that returns a token leaves the buffer and its input as they
\* were when the call started (the next call would then repeat it, for
\* ever); and an iteration of token() that finds the input exhausted returns.
C8_Termination ==
  /\ (pc = "idle" /\ obs.act = "token") => buffer # buf0
  /\ obs.seen => obs.act # "extend"

\* C9: no token that consumes no input is returned: a zero-width match makes
\* token() fail at max_iterations.
C9_NoEmptyToken ==
  (obs.act = "token") => (obs.nitems > 0 /\ Len(obs.tok.value) > 0)

\* C10: when token() returns None the buffer is empty and no unread input
\* remains.
C10_NoneAtEnd ==
  pc = "done" => (Len(buffer.content) = 0 /\ UnreadText(buffer.input) = << >>)

C13_Fifo == op.ok => hist.out \o BufStr(buffer) = ReadText(buffer.input)

\* a shift has returned text, an extend has just read more, and the input
\* has text left
C13_Witness ==
  /\ op.name = "extend" /\ op.ok /\ op.size > 0
  /\ hist.out # << >> /\ buffer.content # << >>
  /\ Len(ReadText(buffer.input)) < Len(InputText(buffer.input))

\* the position of the character at offset off of a text: the newlines before
\* it, its distance from the last of them, and off
TruePosition(text, off) ==
  LET before == PySlice(text, 0, off)
  IN << CountNL(before), off - (RFindNL(before) + 1), off >>

StartMarker(b) == << b.line_no, b.col_no, b.char_no >>
EndMarker(b) == << b.end_line_no, b.end_col_no, b.end_char_no >>

\* C14: for a character buffer made at (0, 0, 0) and bound to a string, after
\* any interleaving of extend and shift, the start marker is the position in
\* the input of the first character held, the end marker that of the
\* character after the last one held, and the buffer a shift returns has the
\* position of its first character for its start marker
C14_TruePositions ==
  (op.ok /\ buffer.kind = "char" /\ buffer.input.mode = "string"
         /\ hist.m0 = << 0, 0, 0 >>)
  => /\ StartMarker(buffer)
          = TruePosition(buffer.input.data, buffer.input.tell - Len(buffer.content))
     /\ EndMarker(buffer) = TruePosition(buffer.input.data, buffer.input.tell)
     /\ op.name = "shift"
          => StartMarker(op.s)
               = TruePosition(buffer.input.data, Len(hist.out) - Len(op.s.content))

\* a shift has returned characters that start in the middle of the second
\* line of the input or later
C14_Witness ==
  /\ op.name = "shift" /\ op.ok /\ buffer.kind = "char"
  /\ buffer.input.mode = "string" /\ hist.m0 = << 0, 0, 0 >>
  /\ op.s.content # << >> /\ op.s.line_no >= 1 /\ op.s.col_no >= 1

\* the newlines of a string, and its characters after the last of them
Newlines(str) == {i \in 1..Len(str) : str[i] = NL}
AfterLastNewline(str) == {i \in 1..Len(str) : \A j \in i..Len(str) : str[j] # NL}

\* C15: for a character buffer with n characters, k of them newlines,
\* end.char = start.char + n, end.line = start.line + k, and end.col is
\* start.col + n when k = 0 and the number of characters after the last
\* newline otherwise, for every start marker and content, the empty one
\* included
C15_CharEndMarker ==
  (op.ok /\ buffer.kind = "char")
  => LET n == Len(buffer.content)
         k == Cardinality(Newlines(buffer.content))
     IN /\ buffer.end_char_no = buffer.char_no + n
        /\ buffer.end_line_no = buffer.line_no + k
        /\ buffer.end_col_no = IF k = 0 THEN buffer.col_no + n
                               ELSE Cardinality(AfterLastNewline(buffer.content))

\* a character buffer that holds a newline and characters after it has its
\* start marker set to column 2
C15_Witness ==
  /\ op.name = "set_start_marker" /\ buffer.kind = "char" /\ buffer.col_no = 2
  /\ Newlines(buffer.content) # {} /\ AfterLastNewline(buffer.content) # {}

\* a character buffer with no content has its start marker set to column 2
C15_WitnessEmpty ==
  /\ op.name = "set_start_marker" /\ buffer.kind = "char" /\ buffer.col_no = 2
  /\ buffer.content = << >>

\* C16: a line buffer with no items has its end marker at its start marker;
\* with m items whose last one ends with a newline the end marker is
\* (start.line + m, 0, start.char + the lengths of the items); with an
\* incomplete last item end.line = start.line + m - 1 and end.col is
\* start.col + the length of the last item when m = 1, the length of the
\* last item otherwise
C16_LineEndMarker ==
  (op.ok /\ buffer.kind = "line")
  => LET m == Len(buffer.content)
         last == buffer.content[m]
         total == buffer.char_no + Len(Join(buffer.content))
     IN IF m = 0 THEN EndMarker(buffer) = StartMarker(buffer)
        ELSE IF last # << >> /\ last[Len(last)] = NL
        THEN EndMarker(buffer) = << buffer.line_no + m, 0, total >>
        ELSE EndMarker(buffer)
               = << buffer.line_no + m - 1,
                    IF m = 1 THEN buffer.col_no + Len(last) ELSE Len(last),
                    total >>

\* a line buffer whose only item is an incomplete line, at start column 2
C16_Witness ==
  /\ op.ok /\ op.name # "init" /\ buffer.kind = "line" /\ buffer.col_no = 2
  /\ Len(buffer.content) = 1 /\ ~EndsWithNL(buffer.content[1])

\* a line buffer of two or more items, the last one incomplete, at start
\* column 2
C16_WitnessMany ==
  /\ op.ok /\ op.name # "init" /\ buffer.kind = "line" /\ buffer.col_no = 2
  /\ Len(buffer.content) >= 2 /\ ~EndsWithNL(buffer.content[Len(buffer.content)])

\* the step is a call shift(count) that returned, with 0 <= count <= length
ShiftInRange == op'.name = "shift" /\ op'.ok /\ op'.n <= Len(buffer.content)

\* C17: shift(count) with 0 <= count <= length returns a new buffer of the
\* same kind, with no input bound, that holds the first count items and has
\* the start marker the caller had before the shift; afterwards the caller
\* holds the items that remain and its start marker is the end marker of the
\* buffer returned
C17_Shift ==
  [][ShiftInRange
     => /\ op'.s.kind = buffer.kind /\ op'.s.mk = buffer.mk
        /\ op'.s.input = NoInput
        /\ op'.s.content = SubSeq(buffer.content, 1, op'.n)
        /\ StartMarker(op'.s) = StartMarker(buffer)
        /\ buffer'.content = SubSeq(buffer.content, op'.n + 1, Len(buffer.content))
        /\ StartMarker(buffer') = EndMarker(op'.s)
        /\ buffer'.input = buffer.input]_vars

\* a buffer bound to an input has shifted out some of its items and kept
\* others, and the start marker has moved
C17_Witness ==
  /\ op.name = "shift" /\ op.ok /\ op.n = Len(op.s.content)
  /\ op.s.content # << >> /\ buffer.content # << >>
  /\ buffer.input.mode # "none"
  /\ StartMarker(buffer) # StartMarker(op.s)

\* C18: on shift(k), for both variants and every FSM mapping, the FSM string
\* of the buffer returned is the first k characters of the FSM string before
\* the shift and the FSM string of the caller is the rest of it
C18_FsmSliced ==
  [][ShiftInRange
     => /\ op'.s.fsm = PySlice(buffer.fsm, 0, op'.n)
        /\ buffer'.fsm = PySlice(buffer.fsm, op'.n, Len(buffer.fsm))]_vars

\* a line buffer whose FSM string starts with a character that was given to
\* assign has shifted out its first item and kept others
C18_Witness ==
  /\ op.name = "shift" /\ op.ok /\ op.n = 1 /\ buffer.kind = "line"
  /\ op.s.fsm = << "x" >> /\ Len(op.s.content) = 1
  /\ buffer.fsm # << >> /\ Len(buffer.fsm) = Len(buffer.content)

\* a character buffer with an FSM string made by patterns has shifted out
\* some of its characters and kept others
C18_WitnessChar ==
  /\ op.name = "shift" /\ op.ok /\ buffer.kind = "char"
  /\ buffer.mk.mode # "identity"
  /\ op.s.fsm # << >> /\ buffer.fsm # << >>

\* C19: after assign with an FSM string given, the FSM string of the buffer
\* is the one given, for both variants; after assign with none given it is
\* the mapping of the whole content
C19_AssignFsm ==
  (op.name = "assign" /\ op.ok)
  => IF op.kw.given THEN buffer.fsm = op.kw.str
     ELSE buffer.fsm = make_fsm_str(buffer.kind, buffer.mk, buffer.content).str

\* C20: shift(count) with count greater than the number of items raises and
\* leaves the buffer as it was
C20_ShiftBeyondEnd ==
  [][(op'.name = "shift" /\ op'.n > Len(buffer.content))
     => (~op'.ok /\ buffer' = buffer)]_vars

\* C21: extend on a buffer with no input bound (never bound, or after
\* bind(None)) raises and leaves the buffer as it was, and the read strategy
\* in force is always the one the last bind selected for its input
C21_ExtendUnbound ==
  /\ [](buffer.strategy = StrategyFor(buffer.input))
  /\ [][(op'.name = "extend" /\ buffer.input.mode = "none")
         => (~op'.ok /\ buffer' = buffer)]_vars

\* extend has raised on a buffer that holds what it read from an input that
\* bind(None) took away
C21_Witness ==
  /\ op.name = "extend" /\ ~op.ok /\ buffer.input.mode = "none"
  /\ buffer.content # << >> /\ ~hist.stream

\* extend has raised on a buffer that never had an input
C21_WitnessNever ==
  /\ op.name = "extend" /\ ~op.ok /\ buffer.input.mode = "none" /\ hist.stream

\* C22: bind(input), with any input and with None, at any point of a
\* buffer's life, leaves the content, the FSM string, the start marker and
\* the end marker as they were
C22_BindKeeps ==
  [][op'.name = "bind"
     => /\ buffer'.content = buffer.content
        /\ buffer'.fsm = buffer.fsm
        /\ StartMarker(buffer') = StartMarker(buffer)
        /\ EndMarker(buffer') = EndMarker(buffer)]_vars

\* a buffer that holds what it read from its first input has been bound to
\* its second one
C22_Witness ==
  /\ op.name = "bind" /\ hist.rebound /\ buffer.input.mode # "none"
  /\ buffer.content # << >> /\ EndMarker(buffer) # StartMarker(buffer)

\* a buffer that holds content has had its input detached
C22_WitnessNone ==
  /\ op.name = "bind" /\ buffer.input.mode = "none" /\ buffer.content # << >>

\* the first input was read to its end before the second one was bound, and
\* the second one has been read to its end
BothRead ==
  /\ op.ok /\ hist.rebound /\ hist.whole
  /\ buffer.input.mode # "none" /\ Remaining(buffer.input) = << >>

\* C23: a buffer that has read an input A to its end, has then been bound to
\* an input B and has read it to its end holds the content, the start marker
\* and the end marker (and the FSM string) that the same buffer has after
\* reading the input made of A followed by B to its end
C23_RebindIsConcat ==
  BothRead
    => \A r \in {ReadAll(buf0)} :
         /\ r.ok
         /\ buffer.content = r.buf.content
         /\ buffer.fsm = r.buf.fsm
         /\ StartMarker(buffer) = StartMarker(r.buf)
         /\ EndMarker(buffer) = EndMarker(r.buf)

\* both inputs had something to give and both have been read to the end
C23_Witness ==
  /\ BothRead /\ op.name = "extend"
  /\ hist.next.data # << >> /\ Len(buf0.input.data) > Len(hist.next.data)
  /\ Len(BufStr(buffer)) = MaxLen

\* the first input of a line buffer ended in the middle of a line that the
\* second one completes
C23_WitnessJoin ==
  /\ BothRead /\ op.name = "extend" /\ buffer.kind = "line"
  /\ hist.next.data # << >> /\ Len(buf0.input.data) > Len(hist.next.data)
  /\ Len(buffer.content) = 1 /\ Len(buffer.content[1]) > 1

\* C24: an extend that returns, returns the number of items it appended: for
\* a line buffer the number of lines (not of characters), for a character
\* buffer the number of characters
C24_ExtendReturn ==
  [][(op'.name = "extend" /\ op'.ok)
     => op'.size = Len(buffer'.content) - Len(buffer.content)]_vars

\* C25: in a line buffer, after any sequence of assign, extend and shift,
\* every item except possibly the last ends with a newline
C25_ItemsEndWithNewline ==
  buffer.kind = "line"
    => \A i \in 1..(Len(buffer.content) - 1) : EndsWithNL(buffer.content[i])

\* the lines an extend step has read: the lines of the text taken from a
\* string or a readable, the pieces taken from an iterator (an empty piece
\* is the end of input, not a line)
LinesRead ==
  LET taken == PySlice(buffer.input.data, buffer.input.tell, buffer'.input.tell)
  IN IF buffer.input.mode = "iter"
     THEN SelectSeq(taken, LAMBDA piece : piece # << >>)
     ELSE SplitLinesKeep(taken)

\* the classification of one item of buffer b
Classified(b, item) == make_fsm_str(b.kind, b.mk, << item >>).str

\* the items and the FSM string of line buffer b after the given lines are
\* added one by one: a line goes into the last item if that is incomplete,
\* and the last FSM character is then replaced by the classification of the
\* enlarged item; otherwise the line is a new item with a new FSM character
RECURSIVE WithLines(_, _)
WithLines(b, lines) ==
  IF lines = << >> THEN b
  ELSE LET n == Len(b.content)
           joined == b.content[n] \o Head(lines)
       IN WithLines(
            IF n > 0 /\ ~EndsWithNL(b.content[n])
            THEN [b EXCEPT !.content = SubSeq(@, 1, n - 1) \o << joined >>,
                           !.fsm = SubSeq(@, 1, Len(@) - 1) \o Classified(b, joined)]
            ELSE [b EXCEPT !.content = @ \o << Head(lines) >>,
                           !.fsm = @ \o Classified(b, Head(lines))],
            Tail(lines))

\* C26: an extend of a line buffer that returns adds the lines it read one
\* by one: to an incomplete last item the line is appended, with no new
\* item, and the last FSM character is replaced by the classification of
\* the enlarged item; after a complete last item, or in an empty buffer,
\* the line is a new item and has a new FSM character
C26_Continuation ==
  [][(op'.name = "extend" /\ op'.ok /\ buffer.kind = "line")
     => \A r \in {WithLines(buffer, LinesRead)} :
          /\ buffer'.content = r.content
          /\ buffer'.fsm = r.fsm]_vars

\* an extend has completed the incomplete line that was assigned: one item,
\* one FSM character, and that the character of the whole line
C26_Witness ==
  /\ op.name = "extend" /\ op.ok /\ buffer.kind = "line"
  /\ buffer.mk.mode # "identity"
  /\ buffer.content = << << "b", "a", NL >> >>
  /\ buffer.fsm = Classified(buffer, buffer.content[1])
  /\ buffer.fsm # Classified(buffer, << "b" >>)

\* an extend has read two lines into an empty buffer: two items
C26_WitnessNew ==
  /\ op.name = "extend" /\ op.ok /\ buffer.kind = "line"
  /\ buffer.content = << << NL >>, << "a" >> >> /\ Len(buffer.fsm) = 2

\* both call sequences have returned and neither has read its input to the end
FormsDone ==
  /\ hist.forms.at = "done" /\ op.ok
  /\ Remaining(buffer.input) # << >> /\ Remaining(buf0.input) # << >>

SameBuffer ==
  /\ buffer.content = buf0.content
  /\ buffer.fsm = buf0.fsm
  /\ StartMarker(buffer) = StartMarker(buf0)
  /\ EndMarker(buffer) = EndMarker(buf0)

Matching(i) ==
  {ch \in DOMAIN buffer.mk.tab :
     ReMatch(buffer.mk.tab[ch], ItemStr(buffer.kind, buffer.content[i])) >= 0}

\* C30: the classification of an item is the registered FSM character of the
\* one pattern that matches it and NUL when no pattern matches, and it
\* raises when two or more patterns match: in a buffer that classifies by
\* patterns and has read its items from its input, after a call that
\* returned every item has its FSM character by this rule and none is
\* matched twice, and an extend that raised has met an item matched twice
C30_FsmChar ==
  (buffer.mk.mode = "patterns" /\ buffer.input.mode # "none")
    => IF op.ok
       THEN /\ Len(buffer.fsm) = Len(buffer.content)
            /\ \A i \in 1..Len(buffer.content) :
                 /\ Cardinality(Matching(i)) <= 1
                 /\ Matching(i) = {} => buffer.fsm[i] = NUL
                 /\ Matching(i) # {} => buffer.fsm[i] \in Matching(i)
       ELSE op.name = "extend"
              => \E i \in 1..Len(buffer.content) : Cardinality(Matching(i)) >= 2

\* items matched by one pattern and by none have been classified
C30_Witness ==
  /\ buffer.mk.mode = "patterns" /\ buffer.input.mode # "none" /\ op.ok
  /\ \E i, j \in 1..Len(buffer.content) :
       /\ Matching(i) = {} /\ buffer.fsm[i] = NUL
       /\ Matching(j) # {} /\ buffer.fsm[j] # NUL

\* an extend has raised on an item that two patterns match
C30_WitnessRaise ==
  /\ buffer.mk.mode = "patterns" /\ buffer.input.mode # "none"
  /\ op.name = "extend" /\ ~op.ok
  /\ \E i \in 1..Len(buffer.content) : Cardinality(Matching(i)) >= 2

\* the dictionary that class cls finds for the registry, own being the
\* attributes of the classes (an empty one when no class in its line has it)
Found(own, cls) == The({ a.own[a.at].tab : a \in {Accessor(own, cls)} })

\* C28: define(id, regex) fails when the id is present and leaves the table
\* as it was, and succeeds otherwise; lookup(id) and remove(id) fail when
\* the id is absent; in every dictionary an id is present exactly when the
\* last call that returned for it was a define, so an id can be defined
\* again after it was removed
C28_Registry ==
  /\ [](\A c \in Classes : \A i \in RegIds :
          classes.own[c].has
            => (i \in DOMAIN classes.own[c].tab
                  <=> hist.last[c][i] \in {"define", "redefine"}))
  /\ [][/\ (op'.name = "define" /\ op'.id \in RegIds)
            => IF op'.id \in DOMAIN Found(classes.own, op'.cls)
               THEN /\ ~op'.ok
                    /\ Found(classes'.own, op'.cls) = Found(classes.own, op'.cls)
               ELSE /\ op'.ok
                    /\ op'.id \in DOMAIN Found(classes'.own, op'.cls)
         /\ op'.name \in {"lookup", "remove"}
            => /\ op'.ok <=> op'.id \in DOMAIN Found(classes.own, op'.cls)
               /\ ~op'.ok
                    => Found(classes'.own, op'.cls) = Found(classes.own, op'.cls)]_vars

\* an id that was defined with one regular expression and removed has been
\* defined again with the other, and the other id is as it was
C28_Witness ==
  /\ op.name = "define" /\ op.ok
  /\ hist.last[op.cls][op.id] = "redefine"
  /\ \E i \in RegIds \ {op.id} :
       /\ hist.last[op.cls][i] = "define"
       /\ classes.own[op.cls].tab[i] # classes.own[op.cls].tab[op.id]

\* a define has failed on an id that is present
C28_WitnessFail ==
  /\ op.name = "define" /\ ~op.ok
  /\ op.id \in DOMAIN Found(classes.own, op.cls)

\* C29: a define or a remove through one tokenizer class changes nothing in
\* what any other tokenizer class finds in its registry
C29_OwnRegistries ==
  [][op'.name \in {"define", "remove"}
     => \A d \in Classes \ {op'.cls} :
          Found(classes'.own, d) = Found(classes.own, d)]_vars

\* C31: def_fsm_char_pattern with the NUL character raises and leaves the
\* registry of every class as it was, and the NUL character is never a
\* registered FSM character
C31_NulReserved ==
  /\ [](classes.registry = "_fsm_char_patterns"
          => \A c \in Classes : NUL \notin DOMAIN classes.own[c].tab)
  /\ [][(op'.name = "define" /\ op'.id = NUL
           /\ classes.registry = "_fsm_char_patterns")
         => (~op'.ok /\ classes' = classes)]_vars

\* def_fsm_char_pattern has refused the NUL character in a class that has
\* FSM characters registered
C31_Witness ==
  /\ classes.registry = "_fsm_char_patterns"
  /\ op.name = "define" /\ op.id = NUL /\ ~op.ok
  /\ DOMAIN Found(classes.own, op.cls) # {}

(***************************************************************************)
(* C32: on a character buffer bound to a string, an extend(n) that returns *)
(* appends exactly the next min(n, remaining) characters of the string and *)
(* returns that number; once nothing remains it returns 0 and leaves the   *)
(* content, the FSM string and both markers as they were, however often it *)
(* is called.                                                              *)
(***************************************************************************)
C32_CharStringExtend ==
  [][(op'.name = "extend" /\ op'.ok
        /\ buffer.kind = "char" /\ buffer.input.mode = "string")
     => LET k == Min(op'.n, Len(Remaining(buffer.input)))
        IN /\ op'.size = k
           /\ buffer'.content
                = buffer.content
                    \o PySlice(buffer.input.data, buffer.input.tell,
                               buffer.input.tell + k)
           /\ Len(buffer'.fsm) = Len(buffer'.content)
           /\ Remaining(buffer'.input)
                = PySlice(Remaining(buffer.input), k, Len(Remaining(buffer.input)))
           /\ k = 0 => /\ buffer'.content = buffer.content
                       /\ buffer'.fsm = buffer.fsm
                       /\ StartMarker(buffer') = StartMarker(buffer)
                       /\ EndMarker(buffer') = EndMarker(buffer)]_vars

\* a second extend in a row has returned 0 on a string that had run out, after
\* the characters of the string were appended
C32_Witness ==
  /\ buffer.kind = "char" /\ buffer.input.mode = "string"
  /\ op.name = "extend" /\ op.ok /\ op.size = 0 /\ op.n = MaxChunk
  /\ buffer.content # << >> /\ buffer.content = buffer.input.data

\* the number of characters a line read takes from the text rest when k0 of
\* them are asked for: on to the first newline at or after the k0-th
\* character, or all of rest when there is none
UpToNewline(rest, k0) ==
  IF k0 = 0 THEN 0
  ELSE CHOOSE j \in k0..Len(rest) :
         /\ j = Len(rest) \/ rest[j] = NL
         /\ \A i \in k0..(j - 1) : rest[i] # NL

Pulled == PySlice(buffer.input.data, buffer.input.tell, buffer'.input.tell)

(***************************************************************************)
(* C34: on a character buffer bound to an iterator of pieces, an extend(n) *)
(* that returns appends whole pieces in order until at least n characters  *)
(* were appended or the iterator has run out; it returns the number of     *)
(* characters appended, which may be more than n, and less than n only     *)
(* when the iterator has run out.                                          *)
(***************************************************************************)
C34_CharIterExtend ==
  [][(op'.name = "extend" /\ op'.ok
        /\ buffer.kind = "char" /\ buffer.input.mode = "iter")
     => /\ buffer'.input.data = buffer.input.data
        /\ buffer'.input.tell >= buffer.input.tell
        /\ buffer'.content = buffer.content \o Join(Pulled)
        /\ op'.size = Len(Join(Pulled))
        /\ \A j \in 0..(Len(Pulled) - 1) : Len(Join(PySlice(Pulled, 0, j))) < op'.n
        /\ op'.size >= op'.n \/ Remaining(buffer'.input) = << >>]_vars

\* an extend has appended more characters than asked for, and pieces are left
C34_Witness ==
  /\ buffer.kind = "char" /\ buffer.input.mode = "iter"
  /\ op.name = "extend" /\ op.ok /\ op.size > op.n
  /\ Remaining(buffer.input) # << >>
  /\ buffer.content = ReadText(buffer.input)

(***************************************************************************)
(* C35: on a line buffer bound to an iterator of pieces, an extend(n) that *)
(* returns pulls pieces, each appended as one line, until the characters   *)
(* counted reach n or the iterator has run out, and stops early for no     *)
(* other reason: a returned value below n means that every piece has been  *)
(* read.                                                                   *)
(***************************************************************************)
C35_LineIterExtend ==
  [][(op'.name = "extend" /\ op'.ok
        /\ buffer.kind = "line" /\ buffer.input.mode = "iter")
     => /\ Join(buffer'.content) = Join(buffer.content) \o Join(Pulled)
        /\ op'.size = Len(Join(Pulled))
        /\ \A j \in 0..(Len(Pulled) - 1) : Len(Join(PySlice(Pulled, 0, j))) < op'.n
        /\ op'.size >= op'.n \/ Remaining(buffer'.input) = << >>]_vars

(***************************************************************************)
(* C36: a shift(k) with 0 <= k <= length does not change the end marker of *)
(* the buffer, for both variants and every content; after shift(length)    *)
(* the buffer is empty and its start marker is that same end marker.       *)
(***************************************************************************)
C36_ShiftKeepsEndMarker ==
  [][(op'.name = "shift" /\ op'.ok /\ op'.n <= Len(buffer.content))
     => /\ EndMarker(buffer') = EndMarker(buffer)
        /\ op'.n = Len(buffer.content)
             => /\ buffer'.content = << >>
                /\ StartMarker(buffer') = EndMarker(buffer)]_vars

\* the tokens __iter__ yields from the buffer b on: token() called until it
\* returns None (end "done") or raises (end "raised"), the loop of token()
\* being in its count-th round with the flag eoi = e; at most MaxTokens
\* tokens are kept (end "cut")
RECURSIVE Replay(_, _, _, _)
Replay(b, e, count, toks) ==
  IF ~(count < max_iterations) THEN [toks |-> toks, end |-> "raised"]
  ELSE The({ CASE o.act = "token"
                    -> IF Len(toks) + 1 >= MaxTokens
                       THEN [toks |-> Append(toks, o.tok), end |-> "cut"]
                       ELSE Replay(o.buf, FALSE, 0, Append(toks, o.tok))
               [] o.act = "none" -> [toks |-> toks, end |-> "done"]
               [] o.act = "raise" -> [toks |-> toks, end |-> "raised"]
               [] OTHER -> Replay(o.buf, o.eoi, count + 1, toks)
             : o \in {LoopBody(b, e)} })

\* the buffer of this tokenizer as it was made, had its class the default
\* chunk size chunk
Started(chunk) ==
  NewBuffer(buffer.kind, buffer.mk, chunk, [buffer.input EXCEPT !.tell = 0],
            hist.m0[1], hist.m0[2], hist.m0[3], TRUE, << >>, NoFsm).buf

\* id, is_error, value, line, col and char of each token
Shown(ts) ==
  [i \in 1..Len(ts) |->
     [id |-> ts[i].id, is_error |-> ts[i].is_error, value |-> ts[i].value,
      line |-> ts[i].line_no, col |-> ts[i].col_no, char |-> ts[i].char_no]]

(***************************************************************************)
(* C37: for one grammar and one string input the tokens the tokenizer      *)
(* produces (id, is_error, value, line, col, char of each) are the same    *)
(* for every chunk size of the buffer; stated of the runs that end with    *)
(* token() returning None.                                                 *)
(***************************************************************************)
C37_ChunkIndependence ==
  (pc = "done" /\ buffer.input.mode = "string")
    => \A chunk \in 1..MaxChunk :
         \A r \in {Replay(Started(chunk), FALSE, 0, << >>)} :
           r.end = "done" => Shown(r.toks) = Shown(tokens)

(***************************************************************************)
(* C38: an extend in which the FSM mapping of the grammar fails leaves the *)
(* buffer as it was before the call: content, FSM string, markers and the  *)
(* input cursor are unchanged, so content and FSM string are still of one  *)
(* length and no input is appended a second time by a later extend.        *)
(***************************************************************************)
C38_FailedExtendKeepsBuffer ==
  [][(op'.name = "extend" /\ ~op'.ok /\ buffer.strategy # "default")
     => /\ buffer'.content = buffer.content
        /\ buffer'.fsm = buffer.fsm
        /\ StartMarker(buffer') = StartMarker(buffer)
        /\ EndMarker(buffer') = EndMarker(buffer)
        /\ buffer'.input = buffer.input
        /\ Len(buffer'.fsm) = Len(buffer'.content)]_vars

(***************************************************************************)
(* C39: buf[i] = line on a line buffer replaces the i-th item and the i-th *)
(* character of the FSM string together, so that the FSM string stays in   *)
(* step with the content; when the assignment fails the content is         *)
(* unchanged.                                                              *)
(***************************************************************************)
C39_SetItem ==
  [][(op'.name = "setitem")
     => IF op'.ok
        THEN /\ Len(buffer'.content) = Len(buffer.content)
             /\ Len(buffer'.fsm) = Len(buffer'.content)
             /\ buffer'.content[op'.n + 1] \in ItemLines
             /\ \A j \in 1..Len(buffer.content) :
                  j # op'.n + 1 => /\ buffer'.content[j] = buffer.content[j]
                                   /\ buffer'.fsm[j] = buffer.fsm[j]
        ELSE buffer'.content = buffer.content]_vars

====
